---------------------------- MODULE Spec2Model ----------------------------
(***************************************************************************)
(* A model of the schema composition engine of nagaozen/base:             *)
(*   lib/jsonschema/index.mjs  load, load.keyFrom, load.visitor,          *)
(*                             loadSchema                                  *)
(*   lib/json/index.mjs        traverse                                    *)
(*   lib/object/index.mjs      itFromPath, _set                            *)
(*   lib/typeOf.mjs            typeOf                                      *)
(*                                                                         *)
(* JavaScript strings are sequences of one-character strings, so that     *)
(* replaceAll, startsWith, substring and replace are computed and not     *)
(* assumed.  JavaScript values are records [t, s, kv]: t is the value's   *)
(* typeOf, s the characters of a string and kv the ordered entries        *)
(* [k |-> key, v |-> value] of an object (own keys in insertion order) or *)
(* of an array (k is then the empty string and the position is the        *)
(* index).                                                                 *)
(***************************************************************************)
EXTENDS Integers, Sequences, FiniteSets, TLC

-----------------------------------------------------------------------------
(* Strings *)

Last(s) == s[Len(s)]

Front(s) == SubSeq(s, 1, Len(s) - 1)

\* String.prototype.startsWith
StartsWith(s, p) == Len(s) >= Len(p) /\ SubSeq(s, 1, Len(p)) = p

\* String.prototype.substring(n): the characters from 0-based position n on
Substring(s, n) == SubSeq(s, n + 1, Len(s))

\* the first 1-based position at which p occurs in s, 0 when it does not
IndexOf(s, p) ==
  LET hits == {i \in 1..(Len(s) - Len(p) + 1) : SubSeq(s, i, i + Len(p) - 1) = p}
  IN IF hits = {} THEN 0 ELSE CHOOSE i \in hits : \A j \in hits : i <= j

\* String.prototype.replace(p, r) with a string pattern: the first occurrence only
Replace(s, p, r) ==
  LET i == IndexOf(s, p)
  IN IF i = 0 THEN s
     ELSE SubSeq(s, 1, i - 1) \o r \o SubSeq(s, i + Len(p), Len(s))

\* String.prototype.toUpperCase on the letters the protocols are written in
UpperChar(c) ==
  CASE c = "f" -> "F"
    [] c = "h" -> "H"
    [] c = "p" -> "P"
    [] c = "t" -> "T"
    [] OTHER -> c

\* the conversion left out
SameCase(s) == s

ToUpperCase(s) == [i \in 1..Len(s) |-> UpperChar(s[i])]

-----------------------------------------------------------------------------
(* JavaScript values *)

Str(s) == [t |-> "string", s |-> s, kv |-> <<>>]

Obj(kv) == [t |-> "object", s |-> <<>>, kv |-> kv]

Arr(items) ==
  [t |-> "array", s |-> <<>>,
   kv |-> [i \in 1..Len(items) |-> [k |-> <<>>, v |-> items[i]]]]

Undefined == [t |-> "undefined", s |-> <<>>, kv |-> <<>>]

Null == [t |-> "null", s |-> <<>>, kv |-> <<>>]

False == [t |-> "boolean", s |-> <<"f">>, kv |-> <<>>]

True == [t |-> "boolean", s |-> <<"t">>, kv |-> <<>>]

\* the number 0
Zero == [t |-> "number", s |-> <<"0">>, kv |-> <<>>]

\* an array position that holds no element
Hole == [t |-> "hole", s |-> <<>>, kv |-> <<>>]

\* no result of visit stops the walk
NeverTruthy(x) == FALSE

\* a value that is not false-ish: what `if (x)` takes for true
Truthy(x) == x \notin {False, Null, Undefined, Zero, Str(<<>>)}

\* what reading an array position yields: undefined where there is no element
Read(x) == IF x = Hole THEN Undefined ELSE x

\* typeOf(x): Object.prototype.toString.call(x).slice(8, -1).toLowerCase()
typeOf(x) == x.t

Digits == <<"0", "1", "2", "3", "4", "5", "6", "7", "8", "9">>

IsDigit(c) == \E d \in 1..Len(Digits) : Digits[d] = c

DigitValue(c) == (CHOOSE d \in 1..Len(Digits) : Digits[d] = c) - 1

RECURSIVE NumberOf(_)
\* the number a string of digits writes
NumberOf(s) ==
  IF s = <<>> THEN 0 ELSE 10 * NumberOf(Front(s)) + DigitValue(Last(s))

\* a canonical array index: the decimal form of a natural number
IsIndexKey(k) ==
  /\ Len(k) >= 1
  /\ \A i \in 1..Len(k) : IsDigit(k[i])
  /\ (Len(k) > 1 => k[1] # "0")

\* the elements of an array (its other entries are named properties)
Length(a) == Cardinality({i \in 1..Len(a.kv) : a.kv[i].k = <<>>})

\* the position in o.kv of own property `key`, 0 when o has none
PosOf(o, key) ==
  IF typeOf(o) = "array" /\ IsIndexKey(key)
  THEN IF NumberOf(key) < Length(o) /\ o.kv[NumberOf(key) + 1].v # Hole
       THEN NumberOf(key) + 1 ELSE 0
  ELSE IF typeOf(o) = "array" /\ key = <<>> THEN 0
  ELSE LET hits == {i \in 1..Len(o.kv) : o.kv[i].k = key}
       IN IF hits = {} THEN 0 ELSE CHOOSE i \in hits : TRUE

\* key in o
In(key, o) == PosOf(o, key) # 0

\* o[key]
Get(o, key) == IF In(key, o) THEN o.kv[PosOf(o, key)].v ELSE Undefined

\* Object.keys(o) of a record, in the record's own key order
Keys(o) == [i \in 1..Len(o.kv) |-> o.kv[i].k]

\* where a new own property lands in a record's key order: integer-like keys
\* ascending first, then the other keys in insertion order
InsertAt(o, key) ==
  IF IsIndexKey(key)
  THEN 1 + Cardinality({i \in 1..Len(o.kv) :
              IsIndexKey(o.kv[i].k) /\ NumberOf(o.kv[i].k) < NumberOf(key)})
  ELSE Len(o.kv) + 1

\* o[key] = value
Put(o, key, value) ==
  IF In(key, o)
  THEN [o EXCEPT !.kv[PosOf(o, key)].v = value]
  ELSE IF typeOf(o) = "array" /\ IsIndexKey(key)
  THEN LET n == NumberOf(key)
           len == Length(o)
       IN [o EXCEPT !.kv =
             [i \in 1..(IF n < len THEN Len(o.kv) ELSE Len(o.kv) + n + 1 - len) |->
                IF i = n + 1 THEN [k |-> <<>>, v |-> value]
                ELSE IF i <= len THEN o.kv[i]
                ELSE IF i <= n THEN [k |-> <<>>, v |-> Hole]
                ELSE o.kv[i - (n + 1 - len)]]]
  ELSE LET at == IF typeOf(o) = "array" THEN Len(o.kv) + 1 ELSE InsertAt(o, key)
       IN [o EXCEPT !.kv =
             SubSeq(o.kv, 1, at - 1) \o <<[k |-> key, v |-> value]>>
               \o SubSeq(o.kv, at, Len(o.kv))]

\* delete o[key]
Delete(o, key) ==
  IF ~In(key, o) THEN o
  ELSE LET p == PosOf(o, key)
       IN IF typeOf(o) = "array" /\ IsIndexKey(key)
          THEN [o EXCEPT !.kv[p].v = Hole]
          ELSE [o EXCEPT !.kv = SubSeq(o.kv, 1, p - 1) \o SubSeq(o.kv, p + 1, Len(o.kv))]

RECURSIVE NodeAt(_, _)
\* the value reached from `tree` through the entry positions of `path`
NodeAt(tree, path) ==
  IF path = <<>> THEN tree ELSE NodeAt(tree.kv[path[1]].v, SubSeq(path, 2, Len(path)))

RECURSIVE ReplaceAt(_, _, _)
\* `tree` with the value at `path` replaced: the in-place mutation of that object
ReplaceAt(tree, path, new) ==
  IF path = <<>> THEN new
  ELSE [tree EXCEPT !.kv[path[1]].v =
          ReplaceAt(tree.kv[path[1]].v, SubSeq(path, 2, Len(path)), new)]

-----------------------------------------------------------------------------
(* Path Accessor: lib/object/index.mjs *)

\* the characters the first alternative of the path pattern excludes: [^.[\]]
IsPlain(c) == c \notin {".", "[", "]"}

\* the end of the maximal run of characters satisfying Ok(_) that starts at i
\* (i - 1 when s[i] does not satisfy it)
RunEnd(s, i, Ok(_)) ==
  LET stops == {j \in i..Len(s) : ~Ok(s[j])}
  IN IF stops = {} THEN Len(s)
     ELSE (CHOOSE j \in stops : \A m \in stops : j <= m) - 1

NotDoubleQuote(c) == c # "\""

NotSingleQuote(c) == c # "'"

\* one match of the pattern
\*   /([^.[\]]+)|\[(\d+)\]|(?:\["([^"]+)"\])|(?:\['([^']+)'\])/g
\* tried at position i: [key, isArrayIndex, next] with next the position after
\* the match, or next = 0 when no alternative matches at i
MatchAt(s, i) ==
  LET none == [key |-> <<>>, isArrayIndex |-> FALSE, next |-> 0]
      quoted(q, Ok(_)) ==
        LET e == RunEnd(s, i + 2, Ok)
        IN IF /\ i + 1 <= Len(s) /\ s[i + 1] = q
              /\ e >= i + 2
              /\ e + 2 <= Len(s) /\ s[e + 1] = q /\ s[e + 2] = "]"
           THEN [key |-> SubSeq(s, i + 2, e), isArrayIndex |-> FALSE, next |-> e + 3]
           ELSE none
  IN IF IsPlain(s[i])
     THEN LET e == RunEnd(s, i, IsPlain)
          IN [key |-> SubSeq(s, i, e), isArrayIndex |-> FALSE, next |-> e + 1]
     ELSE IF s[i] # "[" THEN none
     ELSE LET e == RunEnd(s, i + 1, IsDigit)
          IN IF e >= i + 1 /\ e + 1 <= Len(s) /\ s[e + 1] = "]"
             THEN [key |-> SubSeq(s, i + 1, e), isArrayIndex |-> TRUE, next |-> e + 2]
             ELSE IF quoted("\"", NotDoubleQuote).next # 0
             THEN quoted("\"", NotDoubleQuote)
             ELSE quoted("'", NotSingleQuote)

RECURSIVE Scan(_, _)
\* the loop `while ((match = re.exec(path)) !== null)` from position i on
Scan(s, i) ==
  IF i > Len(s) THEN <<>>
  ELSE LET m == MatchAt(s, i)
       IN IF m.next = 0 THEN Scan(s, i + 1)
          ELSE <<[key |-> m.key, isArrayIndex |-> m.isArrayIndex]>> \o Scan(s, m.next)

itFromPath(path) ==
  IF path = <<>> THEN <<[key |-> <<>>, isArrayIndex |-> FALSE]>> ELSE Scan(path, 1)

\* typeof x === 'object' && x !== null
IsContainer(x) == typeOf(x) \in {"object", "array"}

\* a value the `in` operator accepts on its right (it throws a TypeError on
\* null, undefined and scalars)
HasProperties(x) == typeOf(x) \in {"object", "array"}

RECURSIVE GetWalk(_, _, _, _)
\* the loop of _get from segment i on, at the value o it has walked to:
\* [ok, v] with v the value returned, or ok = FALSE when `key in o` throws
GetWalk(o, it, i, defaultValue) ==
  IF i > Len(it) THEN [ok |-> TRUE, v |-> Undefined]
  ELSE IF typeOf(o) \in {"null", "undefined"} THEN [ok |-> TRUE, v |-> defaultValue]
  ELSE IF ~HasProperties(o) THEN [ok |-> FALSE, v |-> Undefined]
  ELSE IF ~In(it[i].key, o) THEN [ok |-> TRUE, v |-> defaultValue]
  ELSE IF i = Len(it) THEN [ok |-> TRUE, v |-> Get(o, it[i].key)]
  ELSE GetWalk(Get(o, it[i].key), it, i + 1, defaultValue)

\* the default returned whenever the value found is undefined
GetDefined(obj, path, defaultValue) ==
  LET r == IF typeOf(obj) # "object" THEN [ok |-> FALSE, v |-> Undefined]
           ELSE GetWalk(obj, itFromPath(path), 1, defaultValue)
  IN IF r.ok /\ r.v = Undefined THEN [ok |-> TRUE, v |-> defaultValue] ELSE r

\* _get(obj, path, defaultValue): [ok, v], ok = FALSE when it throws
_get(obj, path, defaultValue) ==
  IF typeOf(obj) # "object" THEN [ok |-> FALSE, v |-> Undefined]
  ELSE GetWalk(obj, itFromPath(path), 1, defaultValue)

RECURSIVE SetWalkRecords(_, _, _, _)
\* a record made at every missing intermediate, whatever segment follows
SetWalkRecords(o, it, i, value) ==
  LET key == it[i].key
  IN IF i = Len(it) THEN Put(o, key, value)
     ELSE LET made == IF ~In(key, o) \/ ~IsContainer(Get(o, key))
                      THEN Put(o, key, Obj(<<>>))
                      ELSE o
          IN Put(made, key, SetWalkRecords(Get(made, key), it, i + 1, value))

RECURSIVE SetWalkAnew(_, _, _, _)
\* a new container made at every intermediate, whatever is there
SetWalkAnew(o, it, i, value) ==
  LET key == it[i].key
  IN IF i = Len(it) THEN Put(o, key, value)
     ELSE LET made == Put(o, key, IF it[i + 1].isArrayIndex THEN Arr(<<>>) ELSE Obj(<<>>))
          IN Put(made, key, SetWalkAnew(Get(made, key), it, i + 1, value))

RECURSIVE SetWalk(_, _, _, _)
\* the loop of _set from segment i on, on the container o it has walked to
SetWalk(o, it, i, value) ==
  LET key == it[i].key
  IN IF i = Len(it) THEN Put(o, key, value)
     ELSE LET made == IF ~In(key, o) \/ ~IsContainer(Get(o, key))
                      THEN Put(o, key, IF it[i + 1].isArrayIndex THEN Arr(<<>>)
                                       ELSE Obj(<<>>))
                      ELSE o
          IN Put(made, key, SetWalk(Get(made, key), it, i + 1, value))

\* the error a failed type check throws
TypeError == <<"TypeError">>

\* an array taken for a root as a record is
SetInContainer(obj, path, value) ==
  IF ~IsContainer(obj) THEN [ok |-> FALSE, v |-> obj]
  ELSE LET it == itFromPath(path)
       IN IF it = <<>> THEN [ok |-> TRUE, v |-> obj]
          ELSE [ok |-> TRUE, v |-> SetWalk(obj, it, 1, value)]

\* the error an assignment to the length of an array throws
RangeError == <<"RangeError">>

LengthKey == <<"l", "e", "n", "g", "t", "h">>

\* a value an array's length can be set to: a number (the model has only
\* small naturals) or a string of digits
ValidLength(value) ==
  \/ typeOf(value) = "number"
  \/ /\ typeOf(value) = "string" /\ value.s # <<>>
     /\ \A i \in 1..Len(value.s) : IsDigit(value.s[i])

RECURSIVE RangeWalk(_, _, _, _)
\* the loop of _set from segment i on assigns to the `length` of an array
\* that is there something that is no length, which throws a RangeError:
\* the value at the last segment (line 134), or the record made for an
\* intermediate one (line 139: `length` is in the array and holds a number)
RangeWalk(o, it, i, value) ==
  LET key == it[i].key
  IN IF typeOf(o) = "array" /\ key = LengthKey
     THEN IF i = Len(it) THEN ~ValidLength(value) ELSE ~it[i + 1].isArrayIndex
     ELSE IF i = Len(it) \/ ~In(key, o) \/ ~IsContainer(Get(o, key)) THEN FALSE
     ELSE RangeWalk(Get(o, key), it, i + 1, value)

\* _set(obj, path, value): [ok, v] with v the mutated obj, or ok = FALSE when
\* it throws: the TypeError of line 127, or the RangeError of an assignment
\* to the length of an array, before which nothing was assigned
_set(obj, path, value) ==
  IF typeOf(obj) # "object" THEN [ok |-> FALSE, v |-> obj]
  ELSE LET it == itFromPath(path)
       IN IF it = <<>> THEN [ok |-> TRUE, v |-> obj]
          ELSE IF RangeWalk(obj, it, 1, value) THEN [ok |-> FALSE, v |-> obj]
          ELSE [ok |-> TRUE, v |-> SetWalk(obj, it, 1, value)]

\* the element emptied and left in its place
Vacate(a, n) ==
  IF n < Length(a) THEN [a EXCEPT !.kv[n + 1].v = Hole] ELSE a

\* a.splice(n, 1): element n removed and the later elements moved down; the
\* array is left alone when it has no position n
Splice(a, n) ==
  IF n < Length(a)
  THEN [a EXCEPT !.kv = SubSeq(a.kv, 1, n) \o SubSeq(a.kv, n + 2, Len(a.kv))]
  ELSE a

\* `delete o[key]` throws in strict code: o is null or undefined, or key is
\* an own property of a string, which cannot be removed
DeleteThrows(o, key) ==
  \/ typeOf(o) \in {"null", "undefined"}
  \/ /\ typeOf(o) = "string"
     /\ \/ key = <<"l", "e", "n", "g", "t", "h">>
        \/ IsIndexKey(key) /\ NumberOf(key) < Len(o.s)

RECURSIVE DeleteWalk(_, _, _)
\* the loop of _delete from segment i on, at the value o it has walked to:
\* [ok, v] with v what o has become, or ok = FALSE when a TypeError is thrown
\* (o.splice is not a function, or the delete itself throws)
DeleteWalk(o, it, i) ==
  LET key == it[i].key
  IN IF i = Len(it)
     THEN IF it[i].isArrayIndex
          THEN IF typeOf(o) = "array" THEN [ok |-> TRUE, v |-> Splice(o, NumberOf(key))]
               ELSE [ok |-> FALSE, v |-> o]
          ELSE IF DeleteThrows(o, key) THEN [ok |-> FALSE, v |-> o]
          ELSE IF IsContainer(o) THEN [ok |-> TRUE, v |-> Delete(o, key)]
          ELSE [ok |-> TRUE, v |-> o]
     ELSE IF ~IsContainer(o) \/ ~In(key, o) THEN [ok |-> TRUE, v |-> o]
     ELSE LET r == DeleteWalk(Get(o, key), it, i + 1)
          IN IF r.ok THEN [ok |-> TRUE, v |-> Put(o, key, r.v)] ELSE [ok |-> FALSE, v |-> o]

\* _delete(obj, path) for a string path: [ok, v] with v the mutated obj; it
\* returns true when ok, and has thrown a TypeError when not
_delete(obj, path) ==
  IF typeOf(obj) # "object" THEN [ok |-> FALSE, v |-> obj]
  ELSE LET it == itFromPath(path)
       IN IF it = <<>> THEN [ok |-> TRUE, v |-> obj] ELSE DeleteWalk(obj, it, 1)

-----------------------------------------------------------------------------
(* Addresses: new URL(uri, basepath), for a uri that is either absolute or a  *)
(* plain relative path (segments separated by '/', no '.', '..', query or    *)
(* fragment), and a basepath that is an absolute address.                    *)

Letters ==
  {"a", "b", "c", "d", "e", "f", "g", "h", "i", "j", "k", "l", "m", "n", "o",
   "p", "q", "r", "s", "t", "u", "v", "w", "x", "y", "z"}

\* the position of the ':' that ends the scheme of an absolute address, else 0
SchemeEnd(s) ==
  LET i == IndexOf(s, <<":">>)
  IN IF i > 1 /\ \A j \in 1..(i - 1) : s[j] \in Letters THEN i ELSE 0

\* the address up to and including its last '/'
DirOf(s) ==
  LET slashes == {i \in 1..Len(s) : s[i] = "/"}
  IN IF slashes = {} THEN <<>>
     ELSE SubSeq(s, 1, CHOOSE i \in slashes : \A j \in slashes : j <= i)

\* new URL(uri, basepath).toString()
NewURL(u, base) == IF SchemeEnd(u) # 0 THEN u ELSE DirOf(base) \o u

\* url.protocol.slice(0, -1)
ProtocolOf(url) == SubSeq(url, 1, SchemeEnd(url) - 1)

SchemaJson == <<".", "s", "c", "h", "e", "m", "a", ".", "j", "s", "o", "n">>

DotJson == <<".", "j", "s", "o", "n">>

EnUS == <<"e", "n", "-", "U", "S">>

\* `${lang}` in a template literal
Text(x) ==
  IF typeOf(x) = "string" THEN x.s
  ELSE <<"u", "n", "d", "e", "f", "i", "n", "e", "d">>

\* url.toString().replace('.schema.json', `.${lang}.json`)
L10nAddress(url, lng) == Replace(url, SchemaJson, <<".">> \o Text(lng) \o DotJson)

\* `JSONSCHEMA_LOADER_PROTOCOL_${protocol.toUpperCase()}_NOT_IMPLEMENTED`
NotImplemented(protocol) ==
  <<"J", "S", "O", "N", "S", "C", "H", "E", "M", "A", "_", "L", "O", "A", "D", "E", "R",
    "_", "P", "R", "O", "T", "O", "C", "O", "L", "_">>
    \o ToUpperCase(protocol)
    \o <<"_", "N", "O", "T", "_", "I", "M", "P", "L", "E", "M", "E", "N", "T", "E", "D">>

\* $ref.replace('/', ':'): the first separator only
keyFromFirstOnly(ref) == Replace(ref, <<"/">>, <<":">>)

\* keyFrom($ref): $ref.replaceAll('/', ':')
keyFrom(ref) == [i \in 1..Len(ref) |-> IF ref[i] = "/" THEN ":" ELSE ref[i]]

RefKey == <<"$", "r", "e", "f">>

DefsKey == <<"$", "d", "e", "f", "s">>

\* `#/$defs/${key}`
LocalRef(key) == <<"#", "/">> \o DefsKey \o <<"/">> \o key

\* `${keyFrom(uri)}:${keyFrom($ref.substring(2))}`
AnchorKey(u, ref) == keyFrom(u) \o <<":">> \o keyFrom(Substring(ref, 2))

\* `${keyFrom(uri)}:$defs:${def}`
HoistKey(u, def) == keyFrom(u) \o <<":">> \o DefsKey \o <<":">> \o def

-----------------------------------------------------------------------------
(* Own keys and entries of a value *)

RECURSIVE Numeral(_)
\* String(n) of a natural number
Numeral(n) ==
  IF n < 10 THEN <<Digits[n + 1]>>
  ELSE Numeral(n \div 10) \o <<Digits[(n % 10) + 1]>>

\* the entries Object.entries(x) lists: integer-like keys first
OwnEntries(x) ==
  IF typeOf(x) = "object" THEN x.kv
  ELSE IF typeOf(x) = "array"
  THEN LET live == {i \in 1..Len(x.kv) : x.kv[i].v # Hole}
           nth[n \in 0..Cardinality(live)] ==
             IF n = 0 THEN 0
             ELSE CHOOSE i \in live : i > nth[n - 1] /\ \A j \in live : j > nth[n - 1] => i <= j
       IN [n \in 1..Cardinality(live) |->
             IF x.kv[nth[n]].k = <<>>
             THEN [k |-> Numeral(nth[n] - 1), v |-> x.kv[nth[n]].v]
             ELSE x.kv[nth[n]]]
  ELSE IF typeOf(x) = "string"
  THEN [i \in 1..Len(x.s) |-> [k |-> Numeral(i - 1), v |-> Str(<<x.s[i]>>)]]
  ELSE <<>>

\* Object.keys(x) and Object.entries(x) throw a TypeError on null and undefined
NoKeys(x) == typeOf(x) \in {"null", "undefined"}

PathKey == <<"p", "a", "t", "h">>

ValueKey == <<"v", "a", "l", "u", "e">>

\* the (path, value) pairs loadSchema applies, in the order it applies them:
\* the elements of a list overlay, the entries of any other overlay
OverlayPairs(l10n) ==
  IF typeOf(l10n) = "array"
  THEN LET items == OwnEntries([l10n EXCEPT !.kv = SubSeq(@, 1, Length(l10n))])
       IN [i \in 1..Len(items) |->
             [path |-> Text(Get(items[i].v, PathKey)), value |-> Get(items[i].v, ValueKey)]]
  ELSE LET es == OwnEntries(l10n)
       IN [i \in 1..Len(es) |-> [path |-> es[i].k, value |-> es[i].v]]

\* the overlay dropped
MergeNone(schema, pairs) == [ok |-> TRUE, v |-> schema]

RECURSIVE Merge(_, _)
\* every pair applied with _set, in order: [ok, v], ok = FALSE when _set throws
Merge(schema, pairs) ==
  IF pairs = <<>> THEN [ok |-> TRUE, v |-> schema]
  ELSE LET r == _set(schema, pairs[1].path, pairs[1].value)
       IN IF r.ok THEN Merge(r.v, Tail(pairs)) ELSE r

-----------------------------------------------------------------------------
(* The documents the content provider serves *)

\* how many times one document repeats the same external reference
MaxRepeat == 2

NameA == <<"a">> \o SchemaJson

NameB == <<"s", "/", "b">> \o SchemaJson

\* an address without the conventional '.schema.json' suffix
NameC == <<"s", "/", "t", "/", "c">> \o DotJson

Names == <<NameA, NameB, NameC>>

HttpBase == <<"h", "t", "t", "p", ":", "/", "/", "x", "/">>

FtpBase == <<"f", "t", "p", ":", "/", "/", "x", "/">>

Http == <<"h", "t", "t", "p">>

Kv(k, v) == [k |-> k, v |-> v]

\* a schema without references
Plain == Obj(<<Kv(<<"t">>, Str(<<"s">>))>>)

Ref(target) == Obj(<<Kv(RefKey, Str(target))>>)

\* `#/$defs/<name>`
Anchor(name) == <<"#", "/">> \o DefsKey \o <<"/">> \o name

Value(v) == [kind |-> "value", v |-> v, e |-> <<>>]

Throw(e) == [kind |-> "throw", v |-> Undefined, e |-> e]

NextOf(i) == Names[(i % Len(Names)) + 1]

Shapes == 1..10

\* what the provider answers for document i of shape sh
Document(sh, i) ==
  CASE sh = 1 -> Value(Obj(<<Kv(<<"p">>, Plain)>>))
    [] sh = 2 -> \* the same reference repeated, in an array, and a self reference
         Value(Obj(<<Kv(<<"p">>, Ref(NextOf(i))),
                     Kv(<<"q">>, Arr([n \in 1..MaxRepeat |-> Ref(NextOf(i))]
                                       \o <<Ref(Names[i])>>))>>))
    [] sh = 3 -> \* a reference to document 1, an anchor, local definitions
         Value(Obj(<<Kv(<<"p">>, Ref(NameA)),
                     Kv(<<"q">>, Ref(Anchor(<<"n">>))),
                     Kv(DefsKey, Obj(<<Kv(<<"n">>, Plain)>>))>>))
    [] sh = 4 -> \* a reference inside a local definition; a data field named $ref
         Value(Obj(<<Kv(DefsKey, Obj(<<Kv(<<"n">>, Ref(NextOf(i)))>>)),
                     Kv(<<"p">>, Obj(<<Kv(RefKey, Plain),
                                       Kv(DefsKey, Obj(<<Kv(<<"m">>, Plain)>>)),
                                       Kv(<<"q">>, Ref(Names[i]))>>))>>))
    [] sh = 5 -> \* an anchor and local definitions on the same node
         Value(Obj(<<Kv(<<"p">>, Obj(<<Kv(RefKey, Str(Anchor(<<"n">>))),
                                       Kv(DefsKey, Obj(<<Kv(<<"n">>, Plain)>>))>>))>>))
    [] sh = 6 -> \* an external reference and local definitions on the root node
         Value(Obj(<<Kv(RefKey, Str(NextOf(i))),
                     Kv(DefsKey, Obj(<<Kv(<<"m">>, Plain)>>))>>))
    [] sh = 7 -> \* an absolute reference with another protocol
         Value(Obj(<<Kv(<<"p">>, Ref(FtpBase \o NameA))>>))
    [] sh = 8 -> Value(False)
    [] sh = 9 -> Throw(<<"ENOENT">>)
    [] sh = 10 -> \* document 1 referenced by its absolute and its relative address
         Value(Obj(<<Kv(<<"p">>, Ref(HttpBase \o NameA)),
                     Kv(<<"q">>, Ref(NameA))>>))
    [] sh = 11 -> \* an external reference spelt like the place of a local
                  \* definition of the document, met before that definition
         Value(Obj(<<Kv(<<"p">>, Ref(Names[i] \o <<"/">> \o DefsKey \o <<"/", "m">>)),
                     Kv(<<"q">>, Obj(<<Kv(DefsKey, Obj(<<Kv(<<"m">>, Plain)>>))>>))>>))

\* {path, value}
Item(path, value) == Obj(<<Kv(PathKey, Str(path)), Kv(ValueKey, value)>>)

\* the localization overlays: a record, a list of {path, value}, a list that
\* writes one path twice, a record that writes a path and then the property
\* that holds it, a record that writes them the other way round, and a
\* record that writes a $ref
Overlay(kind) ==
  CASE kind = "record" -> Obj(<<Kv(<<"p", ".", "d">>, Str(<<"x">>))>>)
    [] kind = "list" -> Arr(<<Item(<<"q", "[", "0", "]", ".", "d">>, Str(<<"x">>))>>)
    [] kind = "twice" -> Arr(<<Item(<<"p", ".", "d">>, Str(<<"x">>)),
                               Item(<<"r", "[", "1", "]">>, Undefined),
                               Item(<<"p", ".", "d">>, Str(<<"y">>))>>)
    [] kind = "clash" -> Obj(<<Kv(<<"p", ".", "d">>, Str(<<"x">>)),
                               Kv(<<"p">>, Str(<<"y">>))>>)
    [] kind = "under" -> Obj(<<Kv(<<"p">>, Str(<<"y">>)),
                               Kv(<<"p", ".", "d">>, Str(<<"x">>))>>)
    [] kind = "ref" -> \* a record that writes a reference to document 2
         Obj(<<Kv(<<"p", ".">> \o RefKey, Str(NameB))>>)

\* what a provider may answer for an address that has no document
Missing ==
  {Value(False), Value(Null), Value(Undefined), Value(Zero), Value(Str(<<>>)),
   Throw(<<"ENOENT">>)}

\* the providers considered: document i has shape shape[i], the sidecars
\* exist when `kind` names an overlay, and any other address is answered
\* with `missing`
Worlds ==
  {[shape |-> sh, kind |-> "none", missing |-> Value(False)] :
      sh \in [1..Len(Names) -> Shapes]}
    \cup {[shape |-> sh, kind |-> "none", missing |-> m] :
            sh \in [1..Len(Names) -> {1, 11}], m \in {Value(False), Value(Plain)}}
    \cup {[shape |-> sh, kind |-> "none", missing |-> m] :
            sh \in [1..Len(Names) -> {1, 2}], m \in Missing}
    \cup {[shape |-> sh, kind |-> k, missing |-> m] :
            sh \in [1..Len(Names) -> {1, 2}],
            k \in {"record", "list", "twice", "clash", "under", "ref"},
            m \in {Value(False), Throw(<<"ENOENT">>)}}

\* the worlds in which the other arguments of a call are varied
Variants == {w \in Worlds : \A i \in 1..Len(Names) : w.shape[i] \in {1, 2}}

\* the pass-through options of a call
Options == {Obj(<<>>), Obj(<<Kv(<<"h">>, Str(<<"k">>))>>)}

\* providers[protocol](url, options) in world w, once settled
Answer(w, url) ==
  LET isDoc(i) == url = HttpBase \o Names[i]
      isSide(i) == url = L10nAddress(HttpBase \o Names[i], Str(EnUS))
  IN IF \E i \in 1..Len(Names) : isDoc(i)
     THEN LET i == CHOOSE n \in 1..Len(Names) : isDoc(n) IN Document(w.shape[i], i)
     ELSE IF w.kind # "none" /\ \E i \in 1..Len(Names) : isSide(i)
     THEN Value(Overlay(w.kind))
     ELSE w.missing

-----------------------------------------------------------------------------
(* load(uri, basepath, { lang, providers, ...otherOptions }) *)

VARIABLES
  uri,           \* argument of load
  basepath,      \* argument of load
  lang,          \* options.lang, then the local it defaults
  providers,     \* options.providers: the protocols that have a provider
  otherOptions,  \* the remaining options, handed to every provider call
  callee,        \* the exported function that was called
  args,          \* the arguments of a call of traverse, itFromPath or _get
  visits,        \* the calls visit(node, path) a traverse has made, in order
  world,         \* how the providers answer
  pc,            \* where the call is
  defs,          \* load's $defs: entries [k, doc, v] in insertion order; an
                 \* entry holds the fetched document heap[doc], or when
                 \* doc = 0 the hoisted definition v
  heap,          \* the fetched documents, by order of fetch
  stack,         \* the active traverse(schema, visitor) calls, innermost last:
                 \* [doc, path, st] with path the entry positions from
                 \* the document's root to the current node
  ls,            \* the arguments and locals of the running loadSchema
  calls,         \* the provider invocations made so far
  result,        \* the promise load returned
  self,          \* the cache: the fields of the LRU or LFU instance
  uses,          \* for every key, when it was last used and how often
  clock,         \* how many cache operations were made
  index,         \* the local `index` of a run of a composed function
  ran,           \* the functions a run of a composed function has started
  peer           \* a second call of load that runs interleaved with the
                 \* first: the closure of the suspended one (parked), which
                 \* of the two runs (turn), whether one went on while both
                 \* awaited a provider (mixed), and what the first call came
                 \* to when it was run alone before (alone)

vars ==
  <<uri, basepath, lang, providers, otherOptions, callee, args, visits, world, pc,
    defs, heap, stack, ls, calls, result, self, uses, clock, index, ran, peer>>

\* the state of a cache, of a composed function and of a second call
apart == <<self, uses, clock, index, ran, peer>>

\* what no step of load or loadSchema changes
inputs == <<uri, basepath, providers, otherOptions, callee, args, visits, world, apart>>

\* no cache, no composed function and no second call is there
Apart ==
  self = <<>> /\ uses = <<>> /\ clock = 0 /\ index = -1 /\ ran = <<>> /\ peer = <<>>

\* the promise of load: its state, the value it fulfils with and the error it
\* rejects with
Pending == [status |-> "pending", value |-> Undefined, error |-> <<>>]

Idle == [uri |-> <<>>, url |-> <<>>, schema |-> Undefined]

Init ==
  /\ uri \in {Names[i] : i \in 1..Len(Names)}
  /\ basepath \in {HttpBase, FtpBase}
  /\ lang = Undefined
  /\ providers = {Http}
  /\ \/ world \in Worlds /\ callee = "load" /\ otherOptions = Obj(<<>>)
     \/ world \in Variants /\ callee \in {"load", "loadSchema"} /\ otherOptions \in Options
  /\ pc = callee
  /\ args = <<>>
  /\ visits = <<>>
  /\ defs = <<>>
  /\ heap = <<>>
  /\ stack = <<>>
  /\ ls = IF callee = "load" THEN Idle ELSE [Idle EXCEPT !.uri = uri]
  /\ calls = <<>>
  /\ result = Pending
  /\ Apart

\* the check left out: every reference is taken for a new one
NeverKnown(key) == FALSE

\* the check gone wrong: any key passes for a known one
AlwaysKnown(key) == TRUE

\* key in $defs
Known(key) == \E i \in 1..Len(defs) : defs[i].k = key

\* the assignment left out: the key is never registered
Unbound(table, key, doc, v) == table

\* $defs[key] = ...: a new key is appended, a present one keeps its place
Bind(table, key, doc, v) ==
  IF \E i \in 1..Len(table) : table[i].k = key
  THEN [i \in 1..Len(table) |->
          IF table[i].k = key THEN [k |-> key, doc |-> doc, v |-> v] ELSE table[i]]
  ELSE Append(table, [k |-> key, doc |-> doc, v |-> v])

\* the value bound in an entry of the table
Bound(h, entry) == IF entry.doc = 0 THEN entry.v ELSE h[entry.doc]

\* the children traverse descends into: a record's entries, an array's elements
ChildCount(node) ==
  IF typeOf(node) = "object" THEN Len(node.kv)
  ELSE IF typeOf(node) = "array" THEN Length(node)
  ELSE 0

NoPath == <<0>>

RECURSIVE After(_, _)
\* the node traverse visits once the subtree at `path` is finished: the next
\* sibling of the nearest ancestor-or-self that has one
After(tree, path) ==
  IF path = <<>> THEN NoPath
  ELSE IF Last(path) < ChildCount(NodeAt(tree, Front(path)))
  THEN Front(path) \o <<Last(path) + 1>>
  ELSE After(tree, Front(path))

\* the children of a visited node passed over
SkipChildren(tree, path) == After(tree, path)

\* the node traverse visits after the node at `path`, in depth-first pre-order
NextPath(tree, path) ==
  IF ChildCount(NodeAt(tree, path)) > 0 THEN path \o <<1>> ELSE After(tree, path)

\* the frame once visit(node, path) has returned a falsy value
Advance(frame, tree) ==
  IF NextPath(tree, frame.path) = NoPath
  THEN [frame EXCEPT !.st = "end"]
  ELSE [frame EXCEPT !.path = NextPath(tree, frame.path), !.st = "visit"]

Top == stack[Len(stack)]

\* the error lost: whatever was thrown, load rejects with a TypeError
RejectWithTypeError(e) ==
  /\ pc' = "rejected"
  /\ result' = [Pending EXCEPT !.status = "rejected", !.error = TypeError]
  /\ stack' = <<>>
  /\ ls' = Idle

\* the promise rejects: the error unwinds every pending await
Reject(e) ==
  /\ pc' = "rejected"
  /\ result' = [Pending EXCEPT !.status = "rejected", !.error = e]
  /\ stack' = <<>>
  /\ ls' = Idle

\* the second argument left out
CallWithoutOptions(url, what) ==
  [url |-> url, options |-> Undefined, what |-> what, uri |-> ls.uri]

\* a provider invocation: (url, otherOptions); `what` and `uri` note which
\* fetch of which loadSchema(uri, ...) made it
Call(url, what) ==
  [url |-> url, options |-> otherOptions, what |-> what, uri |-> ls.uri]

\* lines 19-32: the defaults, the empty table, and the call loadSchema(uri, ...)
load ==
  /\ pc = "load"
  /\ lang' = IF typeOf(lang) \in {"undefined", "null"} THEN Str(EnUS) ELSE lang
  /\ defs' = <<>>
  /\ ls' = [Idle EXCEPT !.uri = uri]
  /\ pc' = "loadSchema"
  /\ UNCHANGED <<inputs, heap, stack, calls, result>>

\* lines 96-99 and 117: the protocol's provider is invoked with the absolute
\* address, or the call throws
loadSchema ==
  /\ pc = "loadSchema"
  /\ LET url == NewURL(ls.uri, basepath)
     IN IF ProtocolOf(url) \in providers
        THEN /\ calls' = Append(calls, Call(url, "primary"))
             /\ ls' = [ls EXCEPT !.url = url]
             /\ pc' = "primary"
             /\ UNCHANGED <<stack, result>>
        ELSE /\ Reject(NotImplemented(ProtocolOf(url)))
             /\ UNCHANGED calls
  /\ UNCHANGED <<inputs, lang, defs, heap>>

\* lines 99-102: the primary fetch settles; the sidecar is requested
PrimarySettled ==
  /\ pc = "primary"
  /\ LET a == Answer(world, ls.url)
     IN IF a.kind = "value"
        THEN /\ ls' = [ls EXCEPT !.schema = a.v]
             /\ calls' = Append(calls, Call(L10nAddress(ls.url, lang), "l10n"))
             /\ pc' = "l10n"
             /\ UNCHANGED <<stack, result>>
        ELSE /\ Reject(a.e)
             /\ UNCHANGED calls
  /\ UNCHANGED <<inputs, lang, defs, heap>>

\* lines 102-115 and 33-35, 65-66: the sidecar fetch settles, the overlay is
\* merged, and loadSchema returns the document (line 116): to its caller, or
\* to load, which stores it under its key and starts its traversal
L10nSettled ==
  /\ pc = "l10n"
  /\ LET a == Answer(world, L10nAddress(ls.url, lang))
         l10n == IF a.kind = "throw" THEN Obj(<<>>) ELSE a.v
         merged == Merge(ls.schema, OverlayPairs(l10n))
         id == Len(heap) + 1
     IN IF (typeOf(l10n) # "array" /\ NoKeys(l10n)) \/ ~merged.ok
        THEN /\ Reject(TypeError)
             /\ UNCHANGED <<defs, heap>>
        ELSE IF callee = "loadSchema"
        THEN /\ heap' = Append(heap, merged.v)
             /\ ls' = Idle
             /\ pc' = "returned"
             /\ result' = [Pending EXCEPT !.status = "fulfilled", !.value = merged.v]
             /\ UNCHANGED <<defs, stack>>
        ELSE /\ heap' = Append(heap, merged.v)
             /\ defs' = Bind(defs, keyFrom(ls.uri), id, Undefined)
             /\ stack' = Append(stack, [doc |-> id, path |-> <<>>, st |-> "visit"])
             /\ ls' = Idle
             /\ pc' = "traverse"
             /\ UNCHANGED result
  /\ UNCHANGED <<inputs, lang, calls>>

RECURSIVE HoistAll(_, _)
\* lines 72-75: every local definition bound under `${keyFrom(uri)}:$defs:${def}`
HoistAll(table, entries) ==
  IF entries = <<>> THEN table
  ELSE HoistAll(Bind(table, HoistKey(uri, entries[1].k), 0, entries[1].v), Tail(entries))

\* the visitor returns: the node and the table as it leaves them, and
\* traverse moves on (lines 19-38 of traverse)
Return(node, table) ==
  /\ heap' = [heap EXCEPT ![Top.doc] = ReplaceAt(@, Top.path, node)]
  /\ defs' = table
  /\ stack' = [stack EXCEPT ![Len(stack)] = Advance(Top, heap'[Top.doc])]
  /\ UNCHANGED <<pc, ls, result>>

\* lines 70-77: the local definitions are hoisted and removed
HoistAndReturn(node) ==
  IF ~In(DefsKey, node) THEN Return(node, defs)
  ELSE IF NoKeys(Get(node, DefsKey))
  THEN Reject(TypeError) /\ UNCHANGED <<defs, heap>>
  ELSE Return(Delete(node, DefsKey), HoistAll(defs, OwnEntries(Get(node, DefsKey))))

\* the type check left out: any $ref is taken for a schema reference
AnyRef(ref) == TRUE

\* line 54: a $ref that is not a string is a data field, not a schema reference
IsReference(ref) == typeOf(ref) = "string"

\* lines 40-78 up to the await of line 64: visit(node, path) on the current node
visitor ==
  /\ pc = "traverse" /\ stack # <<>> /\ Top.st = "visit"
  /\ LET node == NodeAt(heap[Top.doc], Top.path)
         ref == Get(node, RefKey)
     IN IF typeOf(node) # "object" \/ ~(In(RefKey, node) \/ In(DefsKey, node))
        THEN Return(node, defs)
        ELSE IF ~In(RefKey, node) THEN HoistAndReturn(node)
        ELSE IF ~IsReference(ref) THEN Return(node, defs)
        ELSE IF StartsWith(ref.s, <<"#">>)
        THEN Return(Put(node, RefKey, Str(LocalRef(AnchorKey(uri, ref.s)))), defs)
        ELSE IF ~Known(keyFrom(ref.s))
        THEN /\ ls' = [Idle EXCEPT !.uri = ref.s]
             /\ pc' = "loadSchema"
             /\ stack' = [stack EXCEPT ![Len(stack)].st = "await"]
             /\ UNCHANGED <<defs, heap, result>>
        ELSE HoistAndReturn(Put(node, RefKey, Str(LocalRef(keyFrom(ref.s)))))
  /\ UNCHANGED <<inputs, lang, calls>>

\* lines 66-77: the traversal of the referenced document is over; the visitor
\* rewrites the node's $ref and goes on
visitorResume ==
  /\ pc = "traverse" /\ stack # <<>> /\ Top.st = "loaded"
  /\ LET node == NodeAt(heap[Top.doc], Top.path)
     IN HoistAndReturn(Put(node, RefKey, Str(LocalRef(keyFrom(Get(node, RefKey).s)))))
  /\ UNCHANGED <<inputs, lang, calls>>

\* traverse(schema, visitor) has visited every node and resolves
traverseReturn ==
  /\ pc = "traverse" /\ stack # <<>> /\ Top.st = "end"
  /\ stack' = IF Len(stack) = 1 THEN <<>>
              ELSE [Front(stack) EXCEPT ![Len(stack) - 1].st = "loaded"]
  /\ UNCHANGED <<inputs, lang, pc, defs, heap, ls, calls, result>>

\* line 37: return { $defs, $ref: `#/$defs/${key}` }
loadReturn ==
  /\ pc = "traverse" /\ stack = <<>>
  /\ pc' = "done"
  /\ result' = [status |-> "fulfilled",
                value |-> [defs |-> [i \in 1..Len(defs) |->
                                       [k |-> defs[i].k, v |-> Bound(heap, defs[i])]],
                           ref |-> LocalRef(keyFrom(uri))],
                error |-> <<>>]
  /\ UNCHANGED <<inputs, lang, defs, heap, stack, ls, calls>>

Next ==
  \/ load
  \/ loadSchema
  \/ PrimarySettled
  \/ L10nSettled
  \/ visitor
  \/ visitorResume
  \/ traverseReturn
  \/ loadReturn

Spec == Init /\ [][Next]_vars

-----------------------------------------------------------------------------
(* traverse(node, visit), itFromPath(path) and _get(obj, path, defaultValue)  *)
(* called on their own                                                        *)

\* how many pieces a path is made of
MaxPieces == 3

\* the pieces paths are made of: single characters, and bracketed segments
Pieces ==
  {<<"a">>, <<"0">>, <<".">>, <<"[">>, <<"]">>, <<"'">>,
   <<"[", "0", "]">>,
   <<"[", "\"", "a", ".", "0", "\"", "]">>,
   <<"[", "'", "a", "]", "'", "]">>,
   <<"[", "\"", "\"", "]">>}

RECURSIVE PathsOfPieces(_)
\* the paths made of exactly n pieces
PathsOfPieces(n) ==
  IF n = 0 THEN {<<>>} ELSE {p \o q : p \in PathsOfPieces(n - 1), q \in Pieces}

\* the paths made of at most n pieces
PathsUpTo(n) == UNION {PathsOfPieces(m) : m \in 0..n}

\* the structures traversed: scalars, null, undefined, empty containers,
\* nested records and arrays with repeated leaves, an array with a hole
Trees ==
  {Str(<<"v">>), Null, Undefined, Zero, Obj(<<>>), Arr(<<>>),
   Obj(<<Kv(<<"a">>, Str(<<"v">>)),
         Kv(<<"b">>, Obj(<<Kv(<<"c">>, Str(<<"w">>)),
                           Kv(<<"d">>, Arr(<<Str(<<"v">>), Null>>))>>)),
         Kv(<<"e">>, Str(<<"v">>))>>),
   Arr(<<Obj(<<Kv(<<"k">>, Str(<<"v">>))>>), Hole, Arr(<<Str(<<"w">>)>>), Str(<<"w">>)>>)}

\* the visit arguments: a value that is not callable, or a function that
\* returns `returns` on the nodes equal to `match` and undefined on the others
Visits ==
  {[callable |-> FALSE, match |-> Undefined, returns |-> Undefined]}
    \cup {[callable |-> TRUE, match |-> m, returns |-> r] :
            m \in {Str(<<"v">>), Str(<<"w">>), Null, Undefined, Str(<<"?">>)},
            r \in {True, Str(<<"y">>), Zero}}

\* the records read
Roots ==
  {Obj(<<>>),
   Obj(<<Kv(<<"a">>, Undefined)>>),
   Obj(<<Kv(<<"a">>, Null)>>),
   Obj(<<Kv(<<"a">>, Str(<<"s">>))>>),
   Obj(<<Kv(<<"a">>, Obj(<<Kv(<<"0">>, Undefined), Kv(<<"a">>, Zero)>>))>>),
   Obj(<<Kv(<<"a">>, Arr(<<Obj(<<Kv(<<"a">>, False)>>)>>)), Kv(<<"0">>, Null)>>)}

\* the pieces of the paths written and removed: keys, a separator, indices,
\* a quoted key, and a bracket that opens nothing
Steps ==
  {<<"a">>, <<"0">>, <<".">>, <<"[">>,
   <<"[", "0", "]">>,
   <<"[", "1", "]">>,
   <<"[", "\"", "a", ".", "0", "\"", "]">>}

RECURSIVE PathsOfSteps(_)
\* the paths made of exactly n of these pieces
PathsOfSteps(n) ==
  IF n = 0 THEN {<<>>} ELSE {p \o q : p \in PathsOfSteps(n - 1), q \in Steps}

\* the paths written and removed
Accesses == UNION {PathsOfSteps(m) : m \in 0..MaxPieces}

\* paths that end at, or pass through, the key `length`
LengthPaths ==
  {<<"a", ".">> \o LengthKey, <<"a", ".">> \o LengthKey \o <<".", "a">>, LengthKey}

\* records that hold arrays of several elements
Lists ==
  {Obj(<<Kv(<<"a">>, Arr(<<Str(<<"x">>), Str(<<"y">>), Str(<<"z">>)>>))>>),
   Obj(<<Kv(<<"a">>, Arr(<<Arr(<<Str(<<"x">>), Hole, Str(<<"x">>)>>), Zero>>)),
         Kv(<<"a.0">>, Str(<<"y">>))>>)}

\* what is handed over for a root that is no record
NoRecords == {Null, Undefined, Str(<<"s">>), Zero, Arr(<<Str(<<"x">>)>>)}

\* the object at position i of the heap, as a reference handed back
Address(i) == [t |-> "address", s |-> Numeral(i), kv |-> <<>>]

\* the state a library call starts in: load's variables are idle
LibIdle ==
  /\ uri = <<>> /\ basepath = <<>> /\ lang = Undefined /\ providers = {}
  /\ otherOptions = Obj(<<>>)
  /\ world = [shape |-> <<1, 1, 1>>, kind |-> "none", missing |-> Value(False)]
  /\ defs = <<>> /\ ls = Idle /\ calls = <<>>
  /\ visits = <<>>
  /\ result = Pending
  /\ Apart

LibInit ==
  /\ LibIdle
  /\ \/ /\ callee = "traverse"
        /\ args \in {[node |-> n, visit |-> v] : n \in Trees, v \in Visits}
        /\ heap = <<args.node>>
        /\ stack = <<[doc |-> 1, path |-> <<>>, st |-> "visit"]>>
        /\ pc = "visit"
     \/ /\ callee = "itFromPath"
        /\ args \in {[path |-> p] : p \in PathsUpTo(MaxPieces)}
        /\ heap = <<>> /\ stack = <<>>
        /\ pc = "call"
     \/ /\ callee = "_get"
        /\ args \in {[obj |-> o, path |-> p, defaultValue |-> d] :
                       o \in Roots \cup {Null, Arr(<<>>)},
                       p \in PathsUpTo(MaxPieces - 1),
                       d \in {Undefined, Str(<<"d">>)}}
        /\ heap = <<>> /\ stack = <<>>
        /\ pc = "call"
     \/ /\ callee = "_set"
        /\ args \in {[obj |-> o, path |-> p, value |-> v] :
                       o \in Roots \cup Lists \cup NoRecords,
                       p \in Accesses \cup LengthPaths,
                       v \in {Str(<<"n">>), Undefined}}
        /\ heap = <<args.obj>> /\ stack = <<>>
        /\ pc = "call"
     \/ /\ callee = "_delete"
        /\ args \in {[obj |-> o, path |-> p] :
                       o \in Roots \cup Lists \cup NoRecords,
                       p \in Accesses}
        /\ heap = <<args.obj>> /\ stack = <<>>
        /\ pc = "call"

\* the function is called however many elements it is given
AnyCallable(f) == TRUE

\* visit(...) throws a TypeError unless visit is a function
Callable(f) == f.callable

RECURSIVE PathText(_, _)
\* the path traverse hands to visit for the node at entry positions `path`:
\* '$', then `${path}.${key}` below a record and `${path}[${i}]` below an array
PathText(tree, path) ==
  IF path = <<>> THEN <<"$">>
  ELSE LET parent == NodeAt(tree, Front(path))
       IN PathText(tree, Front(path))
            \o (IF typeOf(parent) = "array"
                THEN <<"[">> \o Numeral(Last(path) - 1) \o <<"]">>
                ELSE <<".">> \o parent.kv[Last(path)].k)

\* lines 19-38 of traverse: visit is awaited on the current node; a truthy
\* result resolves traverse with { node, path }, another one moves it on to
\* the node's children and siblings, and past the last node it resolves
\* with undefined
traverse ==
  /\ callee = "traverse" /\ pc = "visit"
  /\ LET node == Read(NodeAt(heap[1], Top.path))
         path == PathText(heap[1], Top.path)
         answer == IF node = args.visit.match THEN args.visit.returns ELSE Undefined
     IN IF ~Callable(args.visit)
        THEN /\ Reject(TypeError)
             /\ UNCHANGED visits
        ELSE /\ visits' = Append(visits, [node |-> node, path |-> path])
             /\ ls' = ls
             /\ IF Truthy(answer)
                THEN /\ pc' = "returned"
                     /\ stack' = <<>>
                     /\ result' = [Pending EXCEPT
                                     !.status = "fulfilled",
                                     !.value = Obj(<<Kv(<<"n", "o", "d", "e">>, node),
                                                     Kv(PathKey, Str(path))>>)]
                ELSE IF NextPath(heap[1], Top.path) = NoPath
                THEN /\ pc' = "returned"
                     /\ stack' = <<>>
                     /\ result' = [Pending EXCEPT !.status = "fulfilled"]
                ELSE /\ pc' = pc
                     /\ stack' = <<Advance(Top, heap[1])>>
                     /\ result' = result
  /\ UNCHANGED <<uri, basepath, lang, providers, otherOptions, callee, args, world,
                 defs, heap, calls, apart>>

\* the tokens of a path as a value: [{ key, isArrayIndex }, ...]
Tokens(it) ==
  [i \in 1..Len(it) |-> [key |-> it[i].key, isArrayIndex |-> it[i].isArrayIndex]]

\* itFromPath(path) returns
itFromPathCall ==
  /\ callee = "itFromPath" /\ pc = "call"
  /\ pc' = "returned"
  /\ result' = [Pending EXCEPT !.status = "fulfilled", !.value = Tokens(itFromPath(args.path))]
  /\ UNCHANGED <<inputs, lang, defs, heap, stack, ls, calls>>

\* _get(obj, path, defaultValue) returns or throws
getCall ==
  /\ callee = "_get" /\ pc = "call"
  /\ LET r == _get(args.obj, args.path, args.defaultValue)
     IN IF r.ok
        THEN /\ pc' = "returned"
             /\ result' = [Pending EXCEPT !.status = "fulfilled", !.value = r.v]
             /\ UNCHANGED <<stack, ls>>
        ELSE Reject(TypeError)
  /\ UNCHANGED <<inputs, lang, defs, heap, calls>>

\* _set(obj, path, value) mutates the object it was given and returns it, or
\* throws with the object as it was
setCall ==
  /\ callee = "_set" /\ pc = "call"
  /\ LET r == _set(heap[1], args.path, args.value)
     IN IF r.ok
        THEN /\ heap' = <<r.v>>
             /\ pc' = "returned"
             /\ result' = [Pending EXCEPT !.status = "fulfilled", !.value = Address(1)]
             /\ UNCHANGED <<stack, ls>>
        ELSE /\ Reject(IF typeOf(heap[1]) # "object" THEN TypeError ELSE RangeError)
             /\ UNCHANGED heap
  /\ UNCHANGED <<inputs, lang, defs, calls>>

\* _delete(obj, path) mutates the object it was given and returns true, or
\* throws with the object as it was
deleteCall ==
  /\ callee = "_delete" /\ pc = "call"
  /\ LET r == _delete(heap[1], args.path)
     IN IF r.ok
        THEN /\ heap' = <<r.v>>
             /\ pc' = "returned"
             /\ result' = [Pending EXCEPT !.status = "fulfilled", !.value = True]
             /\ UNCHANGED <<stack, ls>>
        ELSE /\ Reject(TypeError)
             /\ UNCHANGED heap
  /\ UNCHANGED <<inputs, lang, defs, calls>>

LibNext ==
  \/ traverse
  \/ itFromPathCall
  \/ getCall
  \/ setCall
  \/ deleteCall

LibSpec == LibInit /\ [][LibNext]_vars

-----------------------------------------------------------------------------
(* The caches: lib/cache/LRU.mjs and lib/cache/LFU.mjs.  A Map or Set is the  *)
(* sequence of its entries in insertion order.                                *)

\* how many operations are made on a cache
MaxOps == 5

CacheKeys == {"k1", "k2", "k3"}

CacheValues == {Str(<<"u">>), Str(<<"v">>)}

Capacities == {1, 2}

\* the number -1
MinusOne == [t |-> "number", s |-> <<"-", "1">>, kv |-> <<>>]

\* the keys of a Map, in insertion order
KeysOf(m) == [i \in 1..Len(m) |-> m[i].key]

\* m.has(key)
Has(m, key) == \E i \in 1..Len(m) : m[i].key = key

\* m.get(key), for a key the Map has
EntryOf(m, key) == m[CHOOSE i \in 1..Len(m) : m[i].key = key]

\* m.delete(key)
Without(m, key) == SelectSeq(m, LAMBDA e : e.key # key)

\* m.set(key, ...): an entry the Map has keeps its place, a new one goes last
SetEntry(m, entry) ==
  IF Has(m, entry.key)
  THEN [i \in 1..Len(m) |-> IF m[i].key = entry.key THEN entry ELSE m[i]]
  ELSE Append(m, entry)

\* the entry left where it is
Untouched(m, key) == m

\* lines 127-129 of LRU.get: the entry deleted and set again, which puts it last
Touch(m, key) == Append(Without(m, key), EntryOf(m, key))

\* the record of uses once `key` is used: by a get that hits or a put that
\* updates (one more use), or by a put that inserts (the first use)
Used(key, inserted) ==
  [uses EXCEPT ![key] = [last |-> clock + 1,
                         count |-> IF inserted THEN 1 ELSE @.count + 1]]

\* the operation noted: the method called, its arguments, what it returned
Returns(method, arguments, value) ==
  /\ callee' = method
  /\ args' = arguments
  /\ result' = [Pending EXCEPT !.status = "fulfilled", !.value = value]
  /\ clock' = clock + 1

\* what the cache operations leave alone
outside ==
  <<uri, basepath, lang, providers, otherOptions, visits, world, pc, defs, heap,
    stack, ls, calls, index, ran, peer>>

\* LRU.get(key)
lruGet ==
  /\ self.class = "LRU" /\ clock < MaxOps
  /\ \E key \in CacheKeys :
       IF ~Has(self.cache, key)
       THEN /\ Returns("get", [key |-> key], MinusOne)
            /\ UNCHANGED <<self, uses>>
       ELSE /\ Returns("get", [key |-> key], EntryOf(self.cache, key).value)
            /\ self' = [self EXCEPT !.cache = Touch(self.cache, key)]
            /\ uses' = Used(key, FALSE)
  /\ UNCHANGED outside

\* LRU.put(key, value)
lruPut ==
  /\ self.class = "LRU" /\ clock < MaxOps
  /\ \E key \in CacheKeys, value \in CacheValues :
       LET set == Append(Without(self.cache, key), [key |-> key, value |-> value])
       IN /\ Returns("put", [key |-> key, value |-> value], Undefined)
          /\ self' = [self EXCEPT !.cache = IF Len(set) > self.capacity
                                            THEN Tail(set) ELSE set]
          /\ uses' = Used(key, ~Has(self.cache, key))
  /\ UNCHANGED outside

\* LRU.delete(key)
lruDelete ==
  /\ self.class = "LRU" /\ clock < MaxOps
  /\ \E key \in CacheKeys :
       /\ Returns("delete", [key |-> key],
                  IF Has(self.cache, key) THEN True ELSE False)
       /\ self' = [self EXCEPT !.cache = Without(self.cache, key)]
       /\ UNCHANGED uses
  /\ UNCHANGED outside

\* minFreq left as it was
MinKept(minFreq, freq, emptied) == minFreq

\* lines 62-67 of LFU.get: minFreq moves up when its list was emptied
MinAfterUse(minFreq, freq, emptied) ==
  IF emptied /\ minFreq = freq THEN minFreq + 1 ELSE minFreq

\* keysFromFreq.get(freq).delete(key), and the list deleted when it is empty
Unlist(lists, freq, key) ==
  LET left == Without(EntryOf(lists, freq).keys, key)
  IN IF left = <<>> THEN Without(lists, freq)
     ELSE SetEntry(lists, [key |-> freq, keys |-> left])

\* keysFromFreq.get(freq).add(key), the list made when there is none
Enlist(lists, freq, key) ==
  IF Has(lists, freq)
  THEN SetEntry(lists, [key |-> freq,
                        keys |-> IF \E e \in 1..Len(EntryOf(lists, freq).keys) :
                                      EntryOf(lists, freq).keys[e].key = key
                                 THEN EntryOf(lists, freq).keys
                                 ELSE Append(EntryOf(lists, freq).keys, [key |-> key])])
  ELSE Append(lists, [key |-> freq, keys |-> <<[key |-> key]>>])

\* Math.min(...keysFromFreq.keys())
MinKey(lists) == CHOOSE f \in {lists[i].key : i \in 1..Len(lists)} :
                   \A i \in 1..Len(lists) : f <= lists[i].key

\* LFU.get(key) on a cache that has the key: [ok, it], ok = FALSE when
\* keysFromFreq has no list for the key's frequency (a TypeError)
Use(it, key) ==
  LET entry == EntryOf(it.cache, key)
      freq == entry.freq
  IN IF ~Has(it.keysFromFreq, freq) THEN [ok |-> FALSE, it |-> it]
     ELSE LET unlisted == Unlist(it.keysFromFreq, freq, key)
          IN [ok |-> TRUE,
              it |-> [it EXCEPT
                        !.cache = SetEntry(it.cache, [entry EXCEPT !.freq = freq + 1]),
                        !.keysFromFreq = Enlist(unlisted, freq + 1, key),
                        !.minFreq = MinAfterUse(it.minFreq, freq, ~Has(unlisted, freq))]]

\* lines 92-101 of LFU.put: the first key of the list of minFreq evicted:
\* [ok, it], ok = FALSE when there is no such list (a TypeError)
Evict(it) ==
  IF ~Has(it.keysFromFreq, it.minFreq) THEN [ok |-> FALSE, it |-> it]
  ELSE LET keyToEvict == EntryOf(it.keysFromFreq, it.minFreq).keys[1].key
       IN [ok |-> TRUE,
           it |-> [it EXCEPT !.keysFromFreq = Unlist(it.keysFromFreq, it.minFreq, keyToEvict),
                             !.cache = Without(it.cache, keyToEvict)]]

\* a method of the LFU cache ends: it returns, or the TypeError comes out
Ends(method, arguments, r, value) ==
  /\ callee' = method
  /\ args' = arguments
  /\ clock' = clock + 1
  /\ self' = r.it
  /\ result' = IF r.ok THEN [Pending EXCEPT !.status = "fulfilled", !.value = value]
               ELSE [Pending EXCEPT !.status = "rejected", !.error = TypeError]

\* LFU.get(key)
lfuGet ==
  /\ self.class = "LFU" /\ clock < MaxOps
  /\ \E key \in CacheKeys :
       IF ~Has(self.cache, key)
       THEN /\ Returns("get", [key |-> key], MinusOne)
            /\ UNCHANGED <<self, uses>>
       ELSE /\ Ends("get", [key |-> key], Use(self, key), EntryOf(self.cache, key).value)
            /\ uses' = Used(key, FALSE)
  /\ UNCHANGED outside

\* LFU.put(key, value)
lfuPut ==
  /\ self.class = "LFU" /\ clock < MaxOps
  /\ \E key \in CacheKeys, value \in CacheValues :
       LET arguments == [key |-> key, value |-> value]
       IN IF Has(self.cache, key)
          THEN /\ Ends("put", arguments,
                       Use([self EXCEPT !.cache =
                              SetEntry(self.cache,
                                       [EntryOf(self.cache, key) EXCEPT !.value = value])],
                           key),
                       Undefined)
               /\ uses' = Used(key, FALSE)
          ELSE LET room == IF Len(self.cache) >= self.capacity THEN Evict(self)
                           ELSE [ok |-> TRUE, it |-> self]
                   put == [room.it EXCEPT
                             !.cache = SetEntry(room.it.cache,
                                                [key |-> key, value |-> value, freq |-> 1]),
                             !.minFreq = 1,
                             !.keysFromFreq = Enlist(room.it.keysFromFreq, 1, key)]
               IN /\ Ends("put", arguments,
                          IF room.ok THEN [ok |-> TRUE, it |-> put] ELSE room, Undefined)
                  /\ uses' = Used(key, TRUE)
  /\ UNCHANGED outside

\* LFU.delete(key)
lfuDelete ==
  /\ self.class = "LFU" /\ clock < MaxOps
  /\ \E key \in CacheKeys :
       IF ~Has(self.cache, key)
       THEN /\ Returns("delete", [key |-> key], False)
            /\ UNCHANGED <<self, uses>>
       ELSE LET freq == EntryOf(self.cache, key).freq
                lists == IF Has(self.keysFromFreq, freq)
                         THEN Unlist(self.keysFromFreq, freq, key)
                         ELSE self.keysFromFreq
                after == [self EXCEPT
                            !.cache = Without(self.cache, key),
                            !.keysFromFreq = lists,
                            !.minFreq = IF Has(lists, freq) \/ self.minFreq # freq THEN @
                                        ELSE IF lists = <<>> THEN 0
                                        ELSE MinKey(lists)]
            IN /\ Ends("delete", [key |-> key],
                       [ok |-> Has(self.keysFromFreq, freq), it |-> after], True)
               /\ UNCHANGED uses
  /\ UNCHANGED outside

\* a cache of some capacity, just constructed
CacheInit ==
  /\ uri = <<>> /\ basepath = <<>> /\ lang = Undefined /\ providers = {}
  /\ otherOptions = Obj(<<>>)
  /\ world = [shape |-> <<1, 1, 1>>, kind |-> "none", missing |-> Value(False)]
  /\ defs = <<>> /\ ls = Idle /\ calls = <<>> /\ heap = <<>> /\ stack = <<>>
  /\ visits = <<>>
  /\ index = -1 /\ ran = <<>> /\ peer = <<>>
  /\ pc = "ready"
  /\ callee = "constructor"
  /\ \E capacity \in Capacities :
       /\ args = [capacity |-> capacity]
       /\ \/ self = [class |-> "LRU", capacity |-> capacity, cache |-> <<>>]
          \/ self = [class |-> "LFU", capacity |-> capacity, cache |-> <<>>,
                     keysFromFreq |-> <<>>, minFreq |-> 0]
  /\ uses = [k \in CacheKeys |-> [last |-> 0, count |-> 0]]
  /\ clock = 0
  /\ result = Pending

CacheNext ==
  \/ lruGet
  \/ lruPut
  \/ lruDelete
  \/ lfuGet
  \/ lfuPut
  \/ lfuDelete

CacheSpec == CacheInit /\ [][CacheNext]_vars

-----------------------------------------------------------------------------
(* compose(middlewares): lib/middleware/index.mjs.  A function is described  *)
(* by how many times it calls, and awaits, the `next` it is given; it lets   *)
(* the rejection of an awaited next() come out.                              *)

\* how far the dispatches of one run go
MaxDepth == 5

\* how a function behaves: it runs `await next()` this many times
Behaviours == {[calls |-> c] : c \in 0..2}

\* the middlewares arrays composed: up to three functions
Stacks ==
  {<<>>} \cup {<<a>> : a \in Behaviours}
         \cup {<<a, b>> : a \in Behaviours, b \in Behaviours}
         \cup {<<a, b, c>> : a \in Behaviours, b \in Behaviours, c \in Behaviours}

\* the `next` argument of the composed function: left out (the default
\* () => Promise.resolve() is taken), null, or a function
Trailing ==
  {[given |-> "default", calls |-> 0], [given |-> "null", calls |-> 0],
   [given |-> "function", calls |-> 0], [given |-> "function", calls |-> 1]}

\* the guard left out: no call of next() is taken for a repeated one
NeverRepeated(i, idx) == FALSE

\* line 20 of dispatch: if (i <= index)
Repeated(i, idx) == i <= idx

\* line 24: const middleware = i < middlewares.length ? middlewares[i] : next
\* (given |-> "null" when there is nothing to call)
Chosen(i) ==
  IF i < Len(args.middlewares)
  THEN [given |-> "function", calls |-> args.middlewares[i + 1].calls]
  ELSE args.next

\* the error of a repeated next()
MultipleTimes == <<"next() called multiple times">>

\* dispatch(i), called by the function of the innermost frame of `callers`
\* (or by the composed function itself when there is none): a repeated call
\* returns a rejected promise, which the awaiting callers let out; another
\* one sets index and calls the function chosen, if there is one
dispatch(i, callers) ==
  IF Repeated(i, index)
  THEN /\ pc' = "rejected"
       /\ result' = [Pending EXCEPT !.status = "rejected", !.error = MultipleTimes]
       /\ stack' = <<>>
       /\ UNCHANGED <<index, ran>>
  ELSE /\ index' = i
       /\ IF Chosen(i).given = "null"
          THEN /\ stack' = callers
               /\ ran' = ran
               /\ IF callers = <<>>
                  THEN /\ pc' = "returned"
                       /\ result' = [Pending EXCEPT !.status = "fulfilled"]
                  ELSE pc' = "run" /\ result' = result
          ELSE /\ stack' = Append(callers, [fn |-> i, step |-> 0])
               /\ ran' = Append(ran, i)
               /\ pc' = "run" /\ result' = result

\* what a run of a composed function leaves alone
beside ==
  <<uri, basepath, lang, providers, otherOptions, callee, args, visits, world, defs,
    heap, ls, calls, self, uses, clock, peer>>

\* lines 18-35: the composed function is called and returns dispatch(0)
composed ==
  /\ callee = "composed" /\ pc = "call"
  /\ dispatch(0, <<>>)
  /\ UNCHANGED beside

\* the innermost function runs `await next()`: dispatch.bind(null, i + 1)
nextCall ==
  /\ callee = "composed" /\ pc = "run" /\ stack # <<>>
  /\ Top.step < Chosen(Top.fn).calls
  /\ Top.fn + 1 <= MaxDepth
  /\ dispatch(Top.fn + 1, [stack EXCEPT ![Len(stack)].step = @ + 1])
  /\ UNCHANGED beside

\* the innermost function returns: its promise resolves and the function
\* awaiting it goes on; the run is over when it was the outermost
resolved ==
  /\ callee = "composed" /\ pc = "run" /\ stack # <<>>
  /\ Top.step = Chosen(Top.fn).calls
  /\ stack' = Front(stack)
  /\ IF Len(stack) = 1
     THEN /\ pc' = "returned"
          /\ result' = [Pending EXCEPT !.status = "fulfilled"]
     ELSE UNCHANGED <<pc, result>>
  /\ UNCHANGED <<index, ran>>
  /\ UNCHANGED beside

\* a composed function about to be called
ComposeInit ==
  /\ uri = <<>> /\ basepath = <<>> /\ lang = Undefined /\ providers = {}
  /\ otherOptions = Obj(<<>>)
  /\ world = [shape |-> <<1, 1, 1>>, kind |-> "none", missing |-> Value(False)]
  /\ defs = <<>> /\ ls = Idle /\ calls = <<>> /\ heap = <<>>
  /\ visits = <<>>
  /\ self = <<>> /\ uses = <<>> /\ clock = 0 /\ peer = <<>>
  /\ callee = "composed"
  /\ args \in {[middlewares |-> m, next |-> n] : m \in Stacks, n \in Trailing}
  /\ index = -1
  /\ ran = <<>>
  /\ stack = <<>>
  /\ pc = "call"
  /\ result = Pending

ComposeNext ==
  \/ composed
  \/ nextCall
  \/ resolved

ComposeSpec == ComposeInit /\ [][ComposeNext]_vars

-----------------------------------------------------------------------------
(* Two calls of load whose executions interleave *)

\* the providers the interleaved calls are run with
PairWorlds ==
  {[shape |-> sh, kind |-> k, missing |-> Value(False)] :
      sh \in [1..Len(Names) -> {1, 2, 6}], k \in {"none"}}

\* lines 19-40: the parameters and locals of the running call of load: they
\* live in the closure of that call, `$defs` (line 30) included
Closure ==
  [uri |-> uri, lang |-> lang, pc |-> pc, defs |-> defs, heap |-> heap,
   stack |-> stack, ls |-> ls, calls |-> calls, result |-> result]

\* load(u, basepath, ...) before its first statement
Called(u) ==
  [uri |-> u, lang |-> Undefined, pc |-> "load", defs |-> <<>>, heap |-> <<>>,
   stack |-> <<>>, ls |-> Idle, calls |-> <<>>, result |-> Pending]

\* the table kept outside the call: a call that goes on finds the table as
\* the other call left it
SharingTable(c) == [c EXCEPT !.defs = defs]

\* a call that goes on finds its parameters and locals as it left them
Resumed(c) == c

\* the call has settled
Finished(c) == c.pc \in {"done", "rejected"}

\* where a call may be when the other one runs: not started, awaiting a
\* provider (lines 99 and 102), or settled
Suspended(c) == c.pc \in {"load", "primary", "l10n", "done", "rejected"}

\* the call awaits a provider
Awaiting(c) == c.pc \in {"primary", "l10n"}

\* the call with closure c goes on
Resume(c) ==
  /\ uri' = c.uri /\ lang' = c.lang /\ pc' = c.pc /\ defs' = c.defs
  /\ heap' = c.heap /\ stack' = c.stack /\ ls' = c.ls /\ calls' = c.calls
  /\ result' = c.result

\* what no interleaving changes
shared ==
  <<basepath, providers, otherOptions, callee, args, visits, world, self, uses,
    clock, index, ran>>

\* the call run alone has settled: what it came to is noted, and the call is
\* made once more, this time with the second call beside it
rerun ==
  /\ callee = "load" /\ peer # <<>> /\ peer.turn = 0
  /\ Finished(Closure)
  /\ peer' = [peer EXCEPT !.turn = 1, !.alone = Closure]
  /\ Resume(Called(uri))
  /\ UNCHANGED shared

\* the running call is suspended and the other call goes on
switch ==
  /\ callee = "load" /\ peer # <<>> /\ peer.turn \in {1, 2}
  /\ Suspended(Closure)
  /\ ~Finished(peer.parked)
  /\ peer' = [peer EXCEPT !.turn = 3 - @, !.parked = Closure,
                          !.mixed = @ \/ (Awaiting(Closure) /\ Awaiting(peer.parked))]
  /\ Resume(Resumed(peer.parked))
  /\ UNCHANGED shared

PairInit ==
  /\ uri \in {Names[i] : i \in 1..Len(Names)}
  /\ basepath = HttpBase
  /\ lang = Undefined
  /\ providers = {Http}
  /\ world \in PairWorlds /\ callee = "load" /\ otherOptions = Obj(<<>>)
  /\ pc = "load"
  /\ args = <<>> /\ visits = <<>>
  /\ defs = <<>> /\ heap = <<>> /\ stack = <<>> /\ ls = Idle /\ calls = <<>>
  /\ result = Pending
  /\ self = <<>> /\ uses = <<>> /\ clock = 0 /\ index = -1 /\ ran = <<>>
  /\ \E u \in {Names[i] : i \in 1..Len(Names)} :
       peer = [turn |-> 0, alone |-> <<>>, parked |-> Called(u), mixed |-> FALSE]

PairNext ==
  \/ load
  \/ loadSchema
  \/ PrimarySettled
  \/ L10nSettled
  \/ visitor
  \/ visitorResume
  \/ traverseReturn
  \/ loadReturn
  \/ rerun
  \/ switch

PairSpec == PairInit /\ [][PairNext]_vars

-----------------------------------------------------------------------------
(* Properties *)

RECURSIVE PathsOf(_)
\* the entry paths of all the nodes of a value
PathsOf(tree) ==
  {<<>>} \cup UNION {{<<i>> \o p : p \in PathsOf(tree.kv[i].v)} : i \in 1..Len(tree.kv)}

\* the string values of the property `$ref` of the record nodes of a value
RefStrings(tree) ==
  {Get(NodeAt(tree, p), RefKey).s :
     p \in {q \in PathsOf(tree) :
              /\ typeOf(NodeAt(tree, q)) = "object"
              /\ typeOf(Get(NodeAt(tree, q), RefKey)) = "string"}}

\* k is u with every '/' replaced by ':'
ColonForSlash(u, k) ==
  /\ Len(k) = Len(u)
  /\ \A i \in 1..Len(u) : k[i] = (IF u[i] = "/" THEN ":" ELSE u[i])

\* the positions of key k in a returned table
EntriesOf(table, k) == {i \in 1..Len(table) : table[i].k = k}

\* C1: every successful load returns exactly the record { $defs, $ref } with
\* $ref = "#/$defs/<rootKey>", rootKey being uri with every '/' replaced by
\* ':', and $defs[rootKey] the root document (the first document fetched),
\* whatever the documents contain
C1_Composition ==
  pc = "done" =>
    /\ result.status = "fulfilled"
    /\ DOMAIN result.value = {"defs", "ref"}
    /\ StartsWith(result.value.ref, <<"#", "/", "$", "d", "e", "f", "s", "/">>)
    /\ ColonForSlash(uri, Substring(result.value.ref, 8))
    /\ \E i \in 1..Len(result.value.defs) :
         /\ EntriesOf(result.value.defs, Substring(result.value.ref, 8)) = {i}
         /\ result.value.defs[i].v = heap[1]
         /\ defs[i].doc = 1

\* C1 witness: a load returned for a root whose uri has two separators
\* and whose document references itself
C1_Witness ==
  /\ pc = "done"
  /\ uri = NameC
  /\ NameC \in RefStrings(Document(world.shape[3], 3).v)

\* the provider invocations that fetch a primary document
PrimaryCalls == SelectSeq(calls, LAMBDA c : c.what = "primary")

\* the node the innermost traversal is at
Current == NodeAt(heap[Top.doc], Top.path)

\* the visitor is about to be called on a record whose $ref is a string that
\* is not an anchor
AtExternalRef ==
  /\ pc = "traverse" /\ stack # <<>> /\ Top.st = "visit"
  /\ typeOf(Current) = "object"
  /\ typeOf(Get(Current, RefKey)) = "string"
  /\ Get(Current, RefKey).s # <<>>
  /\ Get(Current, RefKey).s[1] # "#"

\* ... and the key of that reference is already in the table
AtKnownRef ==
  /\ AtExternalRef
  /\ \E i \in 1..Len(defs) : ColonForSlash(Get(Current, RefKey).s, defs[i].k)

\* no two primary fetches are for the same reference key
FetchedOnce ==
  \A i, j \in 1..Len(PrimaryCalls) :
     ColonForSlash(PrimaryCalls[i].uri, keyFrom(PrimaryCalls[j].uri)) => i = j

\* C2: within one load call the primary document of a reference key is
\* fetched at most once, and a visit of an external $ref whose key is in the
\* table makes no provider call and starts no loadSchema: it rewrites the
\* node's $ref to "#/$defs/<key>" (and, as for any visited node, hoists the
\* node's own $defs), leaving the table and everything else alone
C2_Memoized ==
  [][/\ FetchedOnce'
     /\ AtKnownRef =>
          /\ calls' = calls
          /\ pc' = "traverse" /\ ls' = ls
          /\ Len(heap') = Len(heap)
          /\ \A d \in 1..Len(heap) : d # Top.doc => heap'[d] = heap[d]
          /\ LET was == Get(Current, RefKey).s
                 now == Get(NodeAt(heap'[Top.doc], Top.path), RefKey)
             IN /\ typeOf(now) = "string"
                /\ StartsWith(now.s, <<"#", "/", "$", "d", "e", "f", "s", "/">>)
                /\ ColonForSlash(was, Substring(now.s, 8))
          /\ ~In(DefsKey, Current) =>
               /\ defs' = defs
               /\ heap'[Top.doc] =
                    ReplaceAt(heap[Top.doc], Top.path,
                              [Current EXCEPT !.kv[PosOf(Current, RefKey)].v.s =
                                 <<"#", "/", "$", "d", "e", "f", "s", "/">> \o keyFrom(@)])]_vars

\* the nodes of document d whose $ref is the local reference to key k
Referrers(d, k) ==
  {p \in PathsOf(heap[d]) :
     /\ typeOf(NodeAt(heap[d], p)) = "object"
     /\ Get(NodeAt(heap[d], p), RefKey) = Str(LocalRef(k))}

\* C2 witness: a load returned in which one document references the same
\* external document from several nodes, another document references the
\* root, and three documents were fetched with three primary fetches
C2_Witness ==
  /\ pc = "done"
  /\ Len(heap) = 3 /\ Len(PrimaryCalls) = 3
  /\ \E d \in 1..Len(heap) : \E i \in 1..Len(defs) :
       defs[i].doc # 0 /\ Cardinality(Referrers(d, defs[i].k)) > 1
  /\ \E d \in 2..Len(heap) : Referrers(d, keyFrom(uri)) # {}

\* the reference key under which fetched document d was stored
KeyOfDoc(d) == keyFrom(PrimaryCalls[d].uri)

\* every document being walked was registered under its key before its
\* traversal began, and no two traversals in progress walk the same key
NoReentry ==
  /\ \A i \in 1..Len(stack) : \E e \in 1..Len(defs) :
       defs[e].k = KeyOfDoc(stack[i].doc) /\ defs[e].doc = stack[i].doc
  /\ \A i, j \in 1..Len(stack) :
       KeyOfDoc(stack[i].doc) = KeyOfDoc(stack[j].doc) => i = j

RECURSIVE Size(_), SizeFrom(_, _)
\* the number of nodes a traversal of the value visits
Size(tree) == 1 + SizeFrom(tree, 1)

\* ... below the children i, i + 1, ... of the value
SizeFrom(tree, i) ==
  IF i > ChildCount(tree) THEN 0 ELSE Size(tree.kv[i].v) + SizeFrom(tree, i + 1)

RECURSIVE Remaining(_, _)
\* the number of nodes from the one at `path` on, in depth-first pre-order
Remaining(tree, path) ==
  IF path = <<>> THEN Size(tree)
  ELSE Remaining(tree.kv[path[1]].v, Tail(path)) + SizeFrom(tree, path[1] + 1)

\* what a traversal in progress still has to do: its return, and the nodes
\* from its current one on
Todo(f) == IF f.st = "end" THEN 1 ELSE 1 + Remaining(heap[f.doc], f.path)

RECURSIVE TodoFrom(_)
TodoFrom(i) == IF i > Len(stack) THEN 0 ELSE Todo(stack[i]) + TodoFrom(i + 1)

\* the steps load makes between two other steps, by where it is
Phase ==
  CASE pc = "traverse" -> 5
    [] pc = "load" -> 4
    [] pc = "loadSchema" -> 3
    [] pc = "primary" -> 2
    [] pc = "l10n" -> 1
    [] OTHER -> 0

\* a measure of the work a load call has left: the fetch steps the distinct
\* reference strings (the names and one absolute address) still allow (two
\* provider calls and one registration each),
\* then the nodes left to visit, then the phase
Rank == <<3 * (Len(Names) + 1) - (Len(calls) + Len(heap)), TodoFrom(1), Phase>>

\* lexicographic order
Less(r, q) ==
  \/ r[1] < q[1]
  \/ r[1] = q[1] /\ r[2] < q[2]
  \/ r[1] = q[1] /\ r[2] = q[2] /\ r[3] < q[3]

\* some step of load can be taken: a call is being started or awaited, or
\* the innermost traversal is at a node, back from a fetch, or at its end
Runnable ==
  \/ pc \in {"load", "loadSchema", "primary", "l10n"}
  \/ pc = "traverse" /\ (stack = <<>> \/ Top.st \in {"visit", "loaded", "end"})

\* C3: whatever cycles the external references of the documents form, load
\* terminates: the key of a document is in the table before the document is
\* traversed, so no traversal re-enters a document that is being walked;
\* until load has settled some step can be taken, and every step
\* decreases a measure that never gets negative
C3_Terminates ==
  /\ [](NoReentry /\ Rank[1] >= 0 /\ (pc \in {"done", "returned", "rejected"} \/ Runnable))
  /\ [][Less(Rank', Rank)]_vars

\* C3 witness: a load returned although two documents reference each other
\* and one of them references itself
C3_Witness ==
  /\ pc = "done"
  /\ \E d, e \in 1..Len(heap) :
       /\ d # e
       /\ Referrers(d, KeyOfDoc(e)) # {}
       /\ Referrers(e, KeyOfDoc(d)) # {}
       /\ Referrers(d, KeyOfDoc(d)) # {}

\* `#/$defs/`
Local == <<"#", "/", "$", "d", "e", "f", "s", "/">>

\* u with every '/' replaced by ':'
Colon(u) == [i \in 1..Len(u) |-> IF u[i] = "/" THEN ":" ELSE u[i]]

\* the string $refs of a value that are not anchors
ExternalRefs(tree) == {r \in RefStrings(tree) : r = <<>> \/ r[1] # "#"}

\* the record nodes of a value that have a property $defs
DefsNodes(tree) ==
  {p \in PathsOf(tree) :
     typeOf(NodeAt(tree, p)) = "object" /\ In(DefsKey, NodeAt(tree, p))}

\* the document loadSchema returns for the reference string u: what the
\* provider serves, with the overlay of its sidecar merged when there is one
Served(u) ==
  LET url == NewURL(u, basepath)
      doc == Answer(world, url).v
      side == Answer(world, L10nAddress(url, IF typeOf(lang) = "string" THEN lang ELSE Str(EnUS)))
  IN IF world.kind = "ref" /\ side.kind = "value" /\ typeOf(doc) = "object"
     THEN Merge(doc, OverlayPairs(side.v)).v
     ELSE doc

\* the uri of fetched document d
UriOfDoc(d) == PrimaryCalls[d].uri

\* C4: when load returns, every string $ref of the composition (the
\* top-level one and every one inside a value held in the table) is
\* "#/$defs/<key>" for a key of the returned table
C4_SelfContained ==
  pc = "done" =>
    /\ StartsWith(result.value.ref, Local)
    /\ EntriesOf(result.value.defs, Substring(result.value.ref, 8)) # {}
    /\ \A i \in 1..Len(result.value.defs) :
         \A r \in RefStrings(result.value.defs[i].v) :
            /\ StartsWith(r, Local)
            /\ EntriesOf(result.value.defs, Substring(r, 8)) # {}

\* C5: when load returns, every document named by a string non-anchor $ref
\* anywhere in a fetched document as it was served (local $defs entries
\* included) has been fetched and is held in the table under its key
C5_Complete ==
  pc = "done" =>
    \A d \in 1..Len(heap) : \A r \in ExternalRefs(Served(UriOfDoc(d))) :
       \E i \in 1..Len(defs) : defs[i].doc # 0 /\ ColonForSlash(r, defs[i].k)

RECURSIVE Reach(_)
\* the reference strings met from the strings S on: S, and the non-anchor
\* $refs of the documents served for a string met
Reach(S) ==
  LET T == S \cup UNION {ExternalRefs(Served(u)) : u \in S}
  IN IF T = S THEN S ELSE Reach(T)

\* the non-anchor $refs of the documents reachable from the root
Targets == UNION {ExternalRefs(Served(u)) : u \in Reach({uri})}

\* no document reachable from the root has local definitions
NoLocalDefs == \A u \in Reach({uri}) : DefsNodes(Served(u)) = {}

AtDataRef ==
  /\ pc = "traverse" /\ stack # <<>> /\ Top.st = "visit"
  /\ typeOf(Current) = "object"
  /\ In(RefKey, Current)
  /\ typeOf(Get(Current, RefKey)) # "string"

\* C7: the visit of a record whose $ref is not a string changes no document
\* (the node keeps every property, its $defs included), makes no provider
\* call, starts no loadSchema and adds no table entry; the traversal goes on
\* with the node's first child
C7_DataRef ==
  [][AtDataRef =>
       /\ heap' = heap /\ defs' = defs /\ calls' = calls
       /\ pc' = "traverse" /\ ls' = ls /\ result' = result
       /\ stack' = [stack EXCEPT ![Len(stack)] =
                      [doc |-> Top.doc, path |-> Top.path \o <<1>>, st |-> "visit"]]]_vars

\* C7 witness: the traversal is at the first child of a record that has a
\* non-string $ref and local $defs
C7_Witness ==
  /\ pc = "traverse" /\ stack # <<>> /\ Top.st = "visit"
  /\ Top.path # <<>> /\ Last(Top.path) = 1
  /\ LET parent == NodeAt(heap[Top.doc], Front(Top.path))
     IN /\ typeOf(parent) = "object"
        /\ In(RefKey, parent) /\ typeOf(Get(parent, RefKey)) = "object"
        /\ In(DefsKey, parent)

\* the visitor is about to be called on a record whose $ref is an anchor
AtAnchor ==
  /\ pc = "traverse" /\ stack # <<>> /\ Top.st = "visit"
  /\ typeOf(Current) = "object"
  /\ typeOf(Get(Current, RefKey)) = "string"
  /\ StartsWith(Get(Current, RefKey).s, <<"#">>)

\* C8: the visit of a record of document D whose $ref is an anchor makes no
\* provider call and sets the $ref to "#/$defs/<key of D>:<the anchor
\* after its first two characters, every '/' replaced by ':'>"
C8_OwnNamespace ==
  [][AtAnchor =>
       /\ calls' = calls /\ pc' = "traverse"
       /\ Get(NodeAt(heap'[Top.doc], Top.path), RefKey) =
            Str(Local \o Colon(UriOfDoc(Top.doc)) \o <<":">>
                  \o Colon(Substring(Get(Current, RefKey).s, 2)))]_vars

\* `:$defs:`
Hoisted == <<":", "$", "d", "e", "f", "s", ":">>

\* C9: when load returns, for every fetched document D and every name n of
\* a $defs block of D as it was served, the table has the key
\* "<key of D>:$defs:n", and no node of D has a $defs property
C9_Hoisted ==
  pc = "done" =>
    \A d \in 1..Len(heap) :
       /\ DefsNodes(heap[d]) = {}
       /\ \A p \in DefsNodes(Served(UriOfDoc(d))) :
            LET block == OwnEntries(Get(NodeAt(Served(UriOfDoc(d)), p), DefsKey))
            IN \A n \in 1..Len(block) :
                  EntriesOf(result.value.defs,
                            Colon(UriOfDoc(d)) \o Hoisted \o block[n].k) # {}

C11_PrimaryFailure ==
  [][/\ pc # "rejected"
     /\ (pc = "primary" /\ Answer(world, ls.url).kind = "throw") =>
          /\ pc' = "rejected"
          /\ result' = [status |-> "rejected", value |-> Undefined, error |-> <<"ENOENT">>]
          /\ calls' = calls]_vars

\* C11 witness: load was rejected by the primary fetch of a referenced
\* document, after the root had been fetched, merged and stored
C11_Witness ==
  /\ pc = "rejected" /\ callee = "load"
  /\ result.error = <<"ENOENT">>
  /\ defs # <<>>
  /\ Len(calls) = 3 /\ calls[3].what = "primary"

\* false, null, undefined, 0 and the empty string
Falsy(v) == v \in {False, Null, Undefined, Zero, Str(<<>>)}

\* what the provider answered to the last call made
LastAnswer == Answer(world, calls[Len(calls)].url)

\* C12: a localization fetch that throws or answers a false-ish value is
\* not surfaced: loadSchema returns the primary document as it was fetched
C12_SilentOverlay ==
  [][(pc = "l10n" /\ (LastAnswer.kind = "throw" \/ Falsy(LastAnswer.v))) =>
       /\ pc' \in {"traverse", "returned"}
       /\ result'.status # "rejected"
       /\ heap' = Append(heap, ls.schema)]_vars

\* the (path, value) pairs an overlay lists, in its order: the elements of a
\* list, the entries of a record
PairsOf(o) ==
  [i \in 1..Len(o.kv) |->
     IF typeOf(o) = "array"
     THEN [path |-> Get(o.kv[i].v, PathKey).s, value |-> Get(o.kv[i].v, ValueKey)]
     ELSE [path |-> o.kv[i].k, value |-> o.kv[i].v]]

\* the keys of the segments of a path
Segments(path) == [i \in 1..Len(itFromPath(path)) |-> itFromPath(path)[i].key]

\* p is a proper prefix of q
ProperPrefix(p, q) == Len(p) < Len(q) /\ SubSeq(q, 1, Len(p)) = p

\* pair i of ps is the last one that writes its path
LastWrite(ps, i) == \A j \in (i + 1)..Len(ps) : Segments(ps[j].path) # Segments(ps[i].path)

\* no later pair of ps writes above or below the path of pair i
Undisturbed(ps, i) ==
  \A j \in (i + 1)..Len(ps) :
     /\ ~ProperPrefix(Segments(ps[j].path), Segments(ps[i].path))
     /\ ~ProperPrefix(Segments(ps[i].path), Segments(ps[j].path))

\* a default that no document and no overlay holds
Absent == Str(<<"?">>)

\* loadSchema is about to merge an overlay that is a record or a list
AtMerge ==
  /\ pc = "l10n"
  /\ LastAnswer.kind = "value" /\ typeOf(LastAnswer.v) \in {"object", "array"}
  /\ typeOf(ls.schema) = "object"

C14_DefaultLang ==
  [][(callee = "loadSchema" /\ lang = Undefined /\ pc = "primary" /\ pc' = "l10n") =>
       calls'[Len(calls')].url =
         Replace(ls.url, SchemaJson,
                 <<".", "e", "n", "-", "U", "S", ".", "j", "s", "o", "n">>)]_vars

\* C15: every provider invocation of a call, primary or localization, for
\* the root or for a referenced document, is given an absolute address (for
\* a primary fetch, the document's) and the caller's remaining options
C15_Arguments ==
  \A i \in 1..Len(calls) :
     /\ calls[i].options = otherOptions
     /\ StartsWith(calls[i].url, <<"h", "t", "t", "p", ":", "/", "/", "x", "/">>)
     /\ calls[i].what = "primary" =>
          calls[i].url \in {<<"h", "t", "t", "p", ":", "/", "/", "x", "/">> \o calls[i].uri,
                            calls[i].uri}

\* C15 witness: load returned after fetching the root and a referenced
\* document, with their localizations, for a caller that passed an option
C15_Witness ==
  /\ pc = "done"
  /\ otherOptions = Obj(<<Kv(<<"h">>, Str(<<"k">>))>>)
  /\ Len(calls) >= 4
  /\ \E i, j \in 1..Len(calls) :
       calls[i].uri # calls[j].uri /\ calls[i].what = "l10n" /\ calls[j].what = "l10n"

-----------------------------------------------------------------------------
(* traverse *)

RECURSIVE Walk(_, _)
RECURSIVE WalkFrom(_, _, _)
\* depth-first pre-order: the node with its path, then the walks of its
\* children: a record's in key order, an array's by ascending index
Walk(node, path) ==
  <<[node |-> Read(node), path |-> path]>> \o WalkFrom(node, path, 1)

WalkFrom(node, path, i) ==
  IF node.t \notin {"object", "array"} \/ i > Len(node.kv) THEN <<>>
  ELSE Walk(node.kv[i].v,
            path \o (IF node.t = "array"
                     THEN <<"[">> \o Numeral(i - 1) \o <<"]">>
                     ELSE <<".">> \o node.kv[i].k))
         \o WalkFrom(node, path, i + 1)

\* the pre-order walk of the structure traverse was given
Order == Walk(args.node, <<"$">>)

\* visit's result on the k-th node of the walk is not false-ish
Accepts(k) == Order[k].node = args.visit.match /\ ~Falsy(args.visit.returns)

\* the first node of the walk visit accepts, 0 when there is none
FirstMatch ==
  IF \E k \in 1..Len(Order) : Accepts(k)
  THEN CHOOSE k \in 1..Len(Order) : Accepts(k) /\ \A j \in 1..(k - 1) : ~Accepts(j)
  ELSE 0

\* C16: when visit never returns a truthy value, traverse calls visit once
\* for every node in depth-first pre-order, the root first with path $, a
\* record's children in key order with path <parent>.<key>, an array's by
\* ascending index with path <parent>[<index>], and null, undefined and
\* scalars as leaves
C16_PreOrder ==
  (callee = "traverse" /\ args.visit.callable /\ FirstMatch = 0) =>
    /\ Len(visits) <= Len(Order)
    /\ visits = SubSeq(Order, 1, Len(visits))
    /\ pc = "returned" => visits = Order

\* C16 witness: traverse returned from a structure of records, arrays,
\* scalars and null none of whose nodes visit accepted
C16_Witness ==
  /\ callee = "traverse" /\ pc = "returned" /\ FirstMatch = 0
  /\ args.visit.callable
  /\ Len(visits) >= 7
  /\ \E i, j \in 1..Len(visits) : visits[i].node = Null /\ visits[j].node.t = "array"

\* C17: the first truthy result of visit halts traverse: no node after the
\* matching one in pre-order is visited, and traverse resolves to
\* { node, path } of the matching node; when visit is never truthy traverse
\* resolves to undefined
C17_FirstMatch ==
  (callee = "traverse" /\ args.visit.callable) =>
    /\ FirstMatch > 0 => Len(visits) <= FirstMatch
    /\ pc = "returned" =>
         /\ result.status = "fulfilled"
         /\ IF FirstMatch > 0
            THEN /\ visits = SubSeq(Order, 1, FirstMatch)
                 /\ result.value = Obj(<<Kv(<<"n", "o", "d", "e">>, Order[FirstMatch].node),
                                         Kv(PathKey, Str(Order[FirstMatch].path))>>)
            ELSE result.value = Undefined

\* C17 witness: traverse returned a match that has children and later
\* siblings left unvisited
C17_Witness ==
  /\ callee = "traverse" /\ pc = "returned"
  /\ FirstMatch > 1
  /\ FirstMatch + 2 < Len(Order)
  /\ result.value.t = "object"

\* C18: traverse fails with a TypeError when visit is not callable, for any
\* node including scalars and empty containers, and no node is visited
C18_NotCallable ==
  /\ []((callee = "traverse" /\ ~args.visit.callable) =>
          /\ visits = <<>>
          /\ pc \in {"visit", "rejected"}
          /\ pc = "rejected" => result.status = "rejected" /\ result.error = <<"TypeError">>)
  /\ [][(callee = "traverse" /\ ~args.visit.callable) => pc' = "rejected"]_vars

\* C18 witness: traverse of an empty array rejected
C18_Witness ==
  /\ callee = "traverse" /\ pc = "rejected"
  /\ ~args.visit.callable
  /\ args.node = Arr(<<>>)

-----------------------------------------------------------------------------
(* itFromPath *)

\* the position of the `]` that closes the bracketed digits opened at i, or 0
IndexClose(s, i) ==
  LET ends == {e \in (i + 2)..Len(s) :
                 s[e] = "]" /\ \A j \in (i + 1)..(e - 1) : IsDigit(s[j])}
  IN IF s[i] = "[" /\ ends # {} THEN CHOOSE e \in ends : TRUE ELSE 0

\* the position of the `]` that closes the text in quotes q opened at i, or 0:
\* the text is whatever stands between the quotes, the quote itself excepted
QuoteClose(s, i, q) ==
  LET ends == {e \in (i + 3)..Len(s) :
                 /\ s[e] = "]" /\ s[e - 1] = q
                 /\ \A j \in (i + 2)..(e - 2) : s[j] # q}
  IN IF s[i] = "[" /\ i + 1 <= Len(s) /\ s[i + 1] = q /\ ends # {}
     THEN CHOOSE e \in ends : TRUE
     ELSE 0

RECURSIVE Segmented(_, _)
\* the segments of a path from position i on, as the tokenization is stated:
\* bracketed digits are an index, bracketed quoted text is a key with the
\* text as its content, a maximal run without `.`, `[`, `]` is a key
Segmented(s, i) ==
  IF i > Len(s) THEN <<>>
  ELSE IF IndexClose(s, i) # 0
  THEN <<[key |-> SubSeq(s, i + 1, IndexClose(s, i) - 1), isArrayIndex |-> TRUE]>>
         \o Segmented(s, IndexClose(s, i) + 1)
  ELSE IF QuoteClose(s, i, "\"") # 0
  THEN <<[key |-> SubSeq(s, i + 2, QuoteClose(s, i, "\"") - 2), isArrayIndex |-> FALSE]>>
         \o Segmented(s, QuoteClose(s, i, "\"") + 1)
  ELSE IF QuoteClose(s, i, "'") # 0
  THEN <<[key |-> SubSeq(s, i + 2, QuoteClose(s, i, "'") - 2), isArrayIndex |-> FALSE]>>
         \o Segmented(s, QuoteClose(s, i, "'") + 1)
  ELSE IF s[i] \in {".", "[", "]"} THEN Segmented(s, i + 1)
  ELSE LET rest == {j \in i..Len(s) : s[j] \in {".", "[", "]"}}
           e == IF rest = {} THEN Len(s) + 1 ELSE CHOOSE j \in rest : \A m \in rest : j <= m
       IN <<[key |-> SubSeq(s, i, e - 1), isArrayIndex |-> FALSE]>> \o Segmented(s, e)

\* C19: itFromPath tokenizes a path into ordered segments: a maximal run of
\* characters other than `.`, `[`, `]` is a plain key, bracketed bare digits
\* are an array index, bracketed single- or double-quoted text is a plain
\* key whose content is the quoted text verbatim, and the empty path yields
\* one empty plain key
C19_Tokenization ==
  (callee = "itFromPath" /\ pc = "returned") =>
    result.value = IF args.path = <<>> THEN <<[key |-> <<>>, isArrayIndex |-> FALSE]>>
                   ELSE Segmented(args.path, 1)

\* what holds of itFromPath: the same, for quoted text that is not empty
C19_NonEmptyQuoted ==
  (/\ callee = "itFromPath" /\ pc = "returned"
   /\ \A i \in 1..Len(args.path) :
        /\ QuoteClose(args.path, i, "\"") # i + 3
        /\ QuoteClose(args.path, i, "'") # i + 3) =>
    result.value = IF args.path = <<>> THEN <<[key |-> <<>>, isArrayIndex |-> FALSE]>>
                   ELSE Segmented(args.path, 1)

-----------------------------------------------------------------------------
(* _get *)

RECURSIVE Lookup(_, _, _)
\* where the segments of `it` from i on lead from the value o: to a null or
\* undefined value before the last key ("nullish"), to a record or array
\* without the key ("absent"), into a scalar ("scalar"), or to the final
\* key, with the value stored there ("found")
Lookup(o, it, i) ==
  IF o \in {Null, Undefined} THEN [how |-> "nullish", v |-> Undefined]
  ELSE IF o.t \notin {"object", "array"} THEN [how |-> "scalar", v |-> Undefined]
  ELSE IF ~In(it[i].key, o) THEN [how |-> "absent", v |-> Undefined]
  ELSE IF i = Len(it) THEN [how |-> "found", v |-> Get(o, it[i].key)]
  ELSE Lookup(Get(o, it[i].key), it, i + 1)

\* where the path of a call of _get on a record leads
Found == Lookup(args.obj, itFromPath(args.path), 1)

\* a call of _get on a record, with a path of at least one segment, is over
GetOver ==
  /\ callee = "_get" /\ pc \in {"returned", "rejected"}
  /\ args.obj.t = "object"
  /\ itFromPath(args.path) # <<>>

-----------------------------------------------------------------------------
(* _set and _delete *)

\* the segments of the path of the call
Its == itFromPath(args.path)

RECURSIVE Reached(_, _, _)
\* what the first n segments of `it` lead to from the value o: [there, v],
\* there = FALSE when a key on the way is absent or is looked up in a value
\* that is neither a record nor an array
Reached(o, it, n) ==
  IF n = 0 THEN [there |-> TRUE, v |-> o]
  ELSE LET r == Reached(o, it, n - 1)
       IN IF r.there /\ r.v.t \in {"object", "array"} /\ In(it[n].key, r.v)
          THEN [there |-> TRUE, v |-> Get(r.v, it[n].key)]
          ELSE [there |-> FALSE, v |-> Undefined]

\* a call of _set on a record, with a path of at least one segment, returned
SetOver ==
  /\ callee = "_set" /\ pc = "returned"
  /\ Its # <<>>

\* C21: when set(root, path, value) meets a missing intermediate it creates
\* an array if the next segment is an array index and a record otherwise,
\* assigns value at the final segment, and returns the very same root object
\* it was given
C21_Set ==
  SetOver =>
    /\ result.value = Address(1) /\ Len(heap) = 1
    /\ Reached(heap[1], Its, Len(Its)) = [there |-> TRUE, v |-> args.value]
    /\ \A n \in 1..(Len(Its) - 1) :
         ~Reached(args.obj, Its, n).there =>
           /\ Reached(heap[1], Its, n).there
           /\ Reached(heap[1], Its, n).v.t =
                (IF Its[n + 1].isArrayIndex THEN "array" ELSE "object")

\* C21 witness: set({}, 'a[0]a', 'n') returned { a: [{ a: 'n' }] }
C21_Witness ==
  /\ SetOver
  /\ args.obj = Obj(<<>>)
  /\ args.path = <<"a", "[", "0", "]", "a">>
  /\ heap[1] = Obj(<<Kv(<<"a">>, Arr(<<Obj(<<Kv(<<"a">>, Str(<<"n">>))>>)>>))>>)

\* a call of _set is over
SetDone == callee = "_set" /\ pc \in {"returned", "rejected"}

\* C22: set fails with a TypeError, before mutating anything, when root is
\* no record: null, undefined, a scalar, and an array as well; a record root
\* is accepted and mutated (unless the walk assigns to the length of an
\* array, which throws a RangeError and leaves the root as it was)
C22_RecordRoot ==
  SetDone =>
    IF args.obj.t = "object"
    THEN \/ /\ pc = "returned"
            /\ Its # <<>> => Reached(heap[1], Its, Len(Its)) = [there |-> TRUE, v |-> args.value]
         \/ \* the root passed the check; a later assignment was refused
            /\ pc = "rejected" /\ result.error = RangeError
            /\ \E n \in 1..Len(Its) : Its[n].key = LengthKey
            /\ heap = <<args.obj>>
    ELSE /\ pc = "rejected"
         /\ result.status = "rejected" /\ result.error = <<"TypeError">>
         /\ heap = <<args.obj>>

\* C22 as stated: set fails with a TypeError, before mutating anything, when
\* root is not a record or array (null, undefined, scalar); a record root and
\* an array root are both accepted and mutated
C22_ContainerRoot ==
  SetDone =>
    IF args.obj.t \in {"object", "array"}
    THEN pc = "returned"
    ELSE /\ pc = "rejected"
         /\ result.error = <<"TypeError">>
         /\ heap = <<args.obj>>

\* C22 witness: a set on an array root was refused, the array left as it was
C22_Witness ==
  /\ SetDone /\ pc = "rejected"
  /\ args.obj = Arr(<<Str(<<"x">>)>>)
  /\ args.path = <<"[", "0", "]">>
  /\ heap = <<args.obj>>

\* a call of _delete on a record is over
DeleteOver ==
  /\ callee = "_delete" /\ pc \in {"returned", "rejected"}
  /\ args.obj.t = "object"

\* the final segment of the path addresses an element of its parent: a key
\* the parent has, or for an array index a position of a parent array
Addressed ==
  /\ Its # <<>>
  /\ LET parent == Reached(args.obj, Its, Len(Its) - 1)
         last == Its[Len(Its)]
     IN /\ parent.there
        /\ IF last.isArrayIndex
           THEN parent.v.t = "array" /\ NumberOf(last.key) < Length(parent.v)
           ELSE parent.v.t \in {"object", "array"} /\ In(last.key, parent.v)

\* C23: for a record root and any string path, delete(root, path) returns
\* true and never fails; when an intermediate on the path is missing or is
\* no container, or the final segment does not address an existing element
\* of its parent (an array index whose parent is no array included), the
\* structure is left unchanged
C23_DeleteNeverFails ==
  DeleteOver =>
    /\ pc = "returned" /\ result.value = True
    /\ ~Addressed => heap = <<args.obj>>

\* what holds of _delete: whether it returns true or throws, a path that
\* addresses nothing leaves the structure as it was
C23_Unchanged ==
  (DeleteOver /\ ~Addressed) => heap = <<args.obj>>

RECURSIVE With(_, _, _, _)
\* the value o with what the first n segments of `it` lead to replaced by new
With(o, it, n, new) ==
  IF n = 0 THEN new
  ELSE [o EXCEPT !.kv[PosOf(o, it[1].key)].v =
          With(Get(o, it[1].key), Tail(it), n - 1, new)]

\* the parent of the final segment, before the call and after it
ParentBefore == Reached(args.obj, Its, Len(Its) - 1).v

ParentAfter == Reached(heap[1], Its, Len(Its) - 1).v

\* a call of _delete whose final segment addresses an element is over
Deleted == DeleteOver /\ Addressed

\* C24: delete with a final array-index segment i on an array parent of
\* length n (0 <= i < n) removes exactly element i and shifts every later
\* element down by one, leaving length n - 1 and the relative order of the
\* rest; with a final plain-key segment it removes exactly that key and no
\* other
C24_Delete ==
  Deleted =>
    LET last == Its[Len(Its)]
        i == NumberOf(last.key)
        n == Length(ParentBefore)
    IN /\ pc = "returned"
       /\ heap = <<With(args.obj, Its, Len(Its) - 1, ParentAfter)>>
       /\ IF last.isArrayIndex
          THEN /\ ParentAfter.t = "array"
               /\ Length(ParentAfter) = n - 1
               /\ \A j \in 0..(n - 2) :
                    ParentAfter.kv[j + 1] = ParentBefore.kv[IF j < i THEN j + 1 ELSE j + 2]
               /\ SubSeq(ParentAfter.kv, n, Len(ParentAfter.kv))
                    = SubSeq(ParentBefore.kv, n + 1, Len(ParentBefore.kv))
          ELSE /\ ~In(last.key, ParentAfter)
               /\ ParentAfter.t = ParentBefore.t
               /\ IF ParentBefore.t = "array" /\ IsIndexKey(last.key)
                  THEN ParentAfter.kv = [ParentBefore.kv EXCEPT ![i + 1].v = Hole]
                  ELSE ParentAfter.kv = SelectSeq(ParentBefore.kv, LAMBDA e : e.k # last.key)

\* C24 witness: delete({ a: ['x', 'y', 'z'] }, 'a[1]') left { a: ['x', 'z'] }
C24_Witness ==
  /\ Deleted /\ pc = "returned"
  /\ args.obj = Obj(<<Kv(<<"a">>, Arr(<<Str(<<"x">>), Str(<<"y">>), Str(<<"z">>)>>))>>)
  /\ args.path = <<"a", "[", "1", "]">>
  /\ heap = <<Obj(<<Kv(<<"a">>, Arr(<<Str(<<"x">>), Str(<<"z">>)>>))>>)>>

-----------------------------------------------------------------------------
(* LRU and LFU *)

\* the keys the cache holds
Cached == {self.cache[i].key : i \in 1..Len(self.cache)}

\* a put of a key the cache does not hold, into a cache that is full, is made
Overflows ==
  /\ callee' = "put"
  /\ args'.key \notin Cached
  /\ Len(self.cache) = self.capacity

\* the cached key whose most recent use is the oldest
Oldest == CHOOSE k \in Cached : \A j \in Cached : uses[k].last <= uses[j].last

\* C25: after any sequence of put/get/delete on an LRU cache of capacity c
\* the cache holds at most c entries; a put of a new key that overflows it
\* evicts exactly the key whose most recent use (a get that hit, a put that
\* inserted or updated it) is the oldest; a get that misses returns -1 and
\* changes nothing
C25_LRU ==
  /\ [](self.class = "LRU" =>
          /\ Len(self.cache) <= self.capacity
          /\ Cardinality(Cached) = Len(self.cache))
  /\ [][self.class = "LRU" =>
          /\ Overflows => Cached' = (Cached \ {Oldest}) \cup {args'.key}
          /\ (callee' = "put" /\ ~Overflows) => Cached' = Cached \cup {args'.key}
          /\ (callee' = "get" /\ args'.key \notin Cached) =>
               result'.value = MinusOne /\ self' = self]_vars

\* C25 witness: in a cache of capacity 2 holding k1 and k2, k1 was read and
\* then k3 put: k2, put after k1 but used before it, is the one evicted
C25_Witness ==
  /\ self.class = "LRU" /\ self.capacity = 2
  /\ callee = "put" /\ args.key = "k3"
  /\ KeysOf(self.cache) = <<"k1", "k3">>
  /\ uses["k1"].last = 3 /\ uses["k2"].last = 2
  /\ clock = 4

\* the cached key used least often, and least recently among those used as
\* seldom
LeastUsed ==
  CHOOSE k \in Cached :
    \A j \in Cached :
      \/ uses[k].count < uses[j].count
      \/ uses[k].count = uses[j].count /\ uses[k].last <= uses[j].last

\* C26: after any sequence of put/get/delete on an LFU cache of capacity c
\* the cache holds at most c entries; a put of a new key into a full cache
\* evicts a key with the smallest use count (a get that hits and a put on an
\* existing key count one use each), the least recently used one among the
\* keys tied at that count; minFreq is the smallest use count of the cached
\* keys whenever the cache is not empty
C26_LFU ==
  /\ [](self.class = "LFU" =>
          /\ Len(self.cache) <= self.capacity
          /\ Cardinality(Cached) = Len(self.cache)
          /\ result.status # "rejected"
          /\ \A k \in Cached : EntryOf(self.cache, k).freq = uses[k].count
          /\ Cached # {} =>
               /\ \E k \in Cached : uses[k].count = self.minFreq
               /\ \A k \in Cached : uses[k].count >= self.minFreq)
  /\ [][self.class = "LFU" =>
          /\ Overflows => Cached' = (Cached \ {LeastUsed}) \cup {args'.key}
          /\ (callee' = "put" /\ ~Overflows) => Cached' = Cached \cup {args'.key}]_vars

\* C26 witness: in a cache of capacity 2, k1 and k2 were each put and read
\* once, k1 first, and then k3 put: of the two keys tied at two uses k1, the
\* less recently used, is the one evicted
C26_Witness ==
  /\ self.class = "LFU" /\ self.capacity = 2
  /\ callee = "put" /\ args.key = "k3"
  /\ KeysOf(self.cache) = <<"k2", "k3">>
  /\ uses["k1"].count = 2 /\ uses["k2"].count = 2
  /\ uses["k1"].last = 3 /\ uses["k2"].last = 4
  /\ self.minFreq = 1
  /\ clock = 5

-----------------------------------------------------------------------------
(* compose *)

\* how many middlewares were composed
Composed == Len(args.middlewares)

\* how many times function k of a run calls next(): middleware k, or the
\* trailing `next` argument from position Composed on
CallsOf(k) ==
  IF k < Composed THEN args.middlewares[k + 1].calls ELSE args.next.calls

\* the innermost function of the run is about to call next(): for the
\* first time, or once more
Calling(first) ==
  /\ pc = "run" /\ stack # <<>>
  /\ Top.step < CallsOf(Top.fn)
  /\ Top.fn < MaxDepth
  /\ first <=> Top.step = 0

\* C27: in a function returned by compose(middlewares), middleware i + 1
\* starts only when middleware i calls its next(), the trailing next
\* argument runs after the last middleware calls next(), a middleware that
\* never calls next() stops the chain, and a second call of the same next()
\* within one run rejects with `next() called multiple times` without
\* running any middleware again
C27_Chain ==
  /\ []((callee = "composed") =>
          /\ \A j \in 1..Len(ran) : ran[j] = j - 1
          /\ \A k \in 0..(Composed - 1) :
               CallsOf(k) = 0 => \A j \in 1..Len(ran) : ran[j] <= k)
  /\ [][(callee = "composed" /\ ran' # ran) =>
          /\ ran' = Append(ran, Len(ran))
          /\ IF ran = <<>> THEN pc = "call"
             ELSE Calling(TRUE) /\ Top.fn = Len(ran) - 1]_vars
  /\ [][(callee = "composed" /\ Calling(TRUE) /\ Top.fn = Composed - 1
           /\ args.next.given # "null") =>
          ran' = Append(ran, Composed)]_vars
  /\ [][(callee = "composed" /\ Calling(FALSE)) =>
          /\ ran' = ran
          /\ pc' = "rejected"
          /\ result' = [status |-> "rejected", value |-> Undefined,
                        error |-> <<"next() called multiple times">>]]_vars

\* C27 witness: of two middlewares the first called next() once and the
\* second twice: both ran once, then the trailing next, and the run rejected
C27_Witness ==
  /\ callee = "composed" /\ pc = "rejected"
  /\ Composed = 2
  /\ CallsOf(0) = 1 /\ CallsOf(1) = 2
  /\ args.next.given = "function"
  /\ ran = <<0, 1, 2>>
  /\ result.error = <<"next() called multiple times">>

-----------------------------------------------------------------------------
(* The order of fetches *)

\* the entries of the table that hold documents, in the table's order
DocEntries == SelectSeq(defs, LAMBDA e : e.doc # 0)

RECURSIVE LastPath(_)
\* the last node of a value in depth-first pre-order: its last child's last
LastPath(tree) ==
  IF tree.t \in {"object", "array"} /\ Len(tree.kv) > 0
  THEN <<Len(tree.kv)>> \o LastPath(tree.kv[Len(tree.kv)].v)
  ELSE <<>>

\* C28: primary fetches occur in depth-first first-discovery order: when a
\* new external reference is met, its document is fetched and completely
\* traversed, with the documents it newly discovers, before traversal of the
\* referring document resumes at the next node; the order in which document
\* keys are inserted into the table is this order, the root first
C28_DepthFirst ==
  /\ [](callee = "load" =>
          /\ Len(DocEntries) \in {Len(PrimaryCalls), Len(PrimaryCalls) - 1}
          /\ \A i \in 1..Len(DocEntries) :
               DocEntries[i].doc = i /\ DocEntries[i].k = Colon(PrimaryCalls[i].uri)
          /\ PrimaryCalls # <<>> => PrimaryCalls[1].uri = uri
          /\ \A j \in 1..(Len(stack) - 1) :
               /\ stack[j].doc < stack[j + 1].doc
               /\ stack[j].st \in {"await", "loaded"})
  /\ [][callee = "load" =>
          \* a fetch is made for the reference at the node the innermost
          \* traversal is at, whose key the table does not have
          /\ PrimaryCalls' # PrimaryCalls =>
               /\ PrimaryCalls' = Append(PrimaryCalls, Last(PrimaryCalls'))
               /\ \A i \in 1..Len(defs) : defs[i].k # Colon(Last(PrimaryCalls').uri)
               /\ stack # <<>> =>
                    /\ Top.st = "await"
                    /\ Last(PrimaryCalls').uri = Get(Current, RefKey).s
          \* the document fetched is traversed next, from its root
          /\ Len(heap') > Len(heap) =>
               stack' = Append(stack, [doc |-> Len(heap'), path |-> <<>>, st |-> "visit"])
          \* meanwhile the referring traversals stay where they are
          /\ \A j \in 1..(Len(stack) - 1) :
               pc' # "rejected" =>
                 /\ j <= Len(stack')
                 /\ stack'[j].doc = stack[j].doc /\ stack'[j].path = stack[j].path
          \* a traversal ends at the last node of its document, and its
          \* referrer resumes at the node after the referring one
          /\ (Len(stack') < Len(stack) /\ pc' # "rejected") =>
               /\ stack' # <<>> => stack' = [Front(stack) EXCEPT ![Len(stack) - 1].st = "loaded"]
               /\ Top.path = LastPath(heap[Top.doc])
          /\ (stack # <<>> /\ Top.st = "loaded" /\ pc' # "rejected") =>
               /\ Len(stack') = Len(stack)
               /\ stack'[Len(stack)].st \in {"visit", "end"}
               /\ stack'[Len(stack)].st = "visit" =>
                    /\ stack'[Len(stack)].path # Top.path
                    /\ \A n \in 1..Len(Top.path) :
                         n <= Len(stack'[Len(stack)].path) =>
                           stack'[Len(stack)].path[n] >= Top.path[n]]_vars

\* C28 witness: the root refers to a second document and that one to a
\* third; the third is traversed to its end while the traversals of the
\* first two wait at their referring nodes
C28_Witness ==
  /\ callee = "load" /\ Len(stack) = 3
  /\ Top.st = "end"
  /\ Len(PrimaryCalls) = 3
  /\ [i \in 1..3 |-> DocEntries[i].k] = [i \in 1..3 |-> Colon(PrimaryCalls[i].uri)]
  /\ stack[1].st = "await" /\ stack[2].st = "await"

-----------------------------------------------------------------------------
(* One provider call at a time *)

\* the provider invocations that have not settled: the fetch the running
\* loadSchema awaits, which is the last one made
Outstanding ==
  IF pc \in {"primary", "l10n"} THEN {Len(calls)} ELSE {}

\* the provider invocations that have settled
Settled == (1..Len(calls)) \ Outstanding

\* C29: within one load call at most one provider invocation is outstanding
\* at any time: every provider call starts only after the previous one of that
\* load has settled, and the table is mutated only between provider calls, by
\* the single running traversal
C29_OneAtATime ==
  /\ [](callee = "load" =>
          /\ Cardinality(Outstanding) <= 1
          /\ Outstanding # {} => calls[Len(calls)].what = pc
          \* the calls come in pairs: a document, then its sidecar
          /\ \A i \in 1..Len(calls) :
               calls[i].what = (IF i % 2 = 1 THEN "primary" ELSE "l10n")
          /\ Len(stack) <= 1 + Len(heap))
  /\ [][callee = "load" =>
          /\ calls' # calls =>
               /\ calls' = Append(calls, Last(calls'))
               /\ Outstanding' = {Len(calls')}
               /\ Settled' = 1..Len(calls)
               \* a sidecar is asked for when its document has arrived
               /\ Last(calls').what = "l10n" =>
                    /\ Outstanding = {Len(calls)}
                    /\ Last(calls).what = "primary" /\ Last(calls).uri = Last(calls').uri
                    /\ ls'.schema = Answer(world, Last(calls).url).v
               \* a document is asked for when no call is outstanding and
               \* all documents fetched before are in the table
               /\ Last(calls').what = "primary" =>
                    /\ Outstanding = {}
                    /\ Len(calls) = 2 * Len(heap)
                    /\ Len(DocEntries) = Len(heap)
          /\ defs' # defs =>
               /\ calls' = calls
               /\ Outstanding' = {}
               /\ pc' = "traverse" /\ stack' # <<>>]_vars

\* C29 witness: the sidecar of a referenced document is outstanding: the
\* three calls before it have settled, and the traversal of the root, which
\* has put entries into the table, waits
C29_Witness ==
  /\ callee = "load" /\ pc = "l10n"
  /\ Len(calls) = 4 /\ Outstanding = {4} /\ Settled = {1, 2, 3}
  /\ Len(stack) = 1 /\ stack[1].st = "await"
  /\ Len(defs) >= 2

-----------------------------------------------------------------------------
(* One entry per resolved document *)

\* C30: the table holds exactly one entry per distinct resolved document: if
\* two reference strings, or the root uri and a reference string, resolve
\* against basepath to the same absolute address, the document is fetched
\* once and stored under a single key
C30_OnePerAddress ==
  callee = "load" =>
    /\ \A i, j \in 1..Len(PrimaryCalls) :
         PrimaryCalls[i].url = PrimaryCalls[j].url => i = j
    /\ \A i, j \in 1..Len(DocEntries) :
         NewURL(PrimaryCalls[DocEntries[i].doc].uri, basepath)
           = NewURL(PrimaryCalls[DocEntries[j].doc].uri, basepath)
         => DocEntries[i].k = DocEntries[j].k

-----------------------------------------------------------------------------
(* Local definitions are hoisted from every node *)

\* the traversal leaves the node it is at: the visitor has returned
LeavesNode ==
  /\ callee = "load" /\ pc = "traverse" /\ stack # <<>>
  /\ Top.st \in {"visit", "loaded"}
  /\ Len(stack') = Len(stack)
  /\ stack'[Len(stack)].st = "end" \/ stack'[Len(stack)].path # Top.path

\* C31: every visited record node that carries $defs has all its definitions
\* hoisted into the table and its $defs property removed, whatever else the
\* node carries (an anchor $ref or a $ref that is not a string included);
\* when load returns, no visited node still has a $defs property
C31_HoistedFromEveryNode ==
  /\ [][(LeavesNode /\ typeOf(Current) = "object" /\ In(DefsKey, Current)) =>
          /\ ~In(DefsKey, NodeAt(heap'[Top.doc], Top.path))
          /\ \A n \in 1..Len(Get(Current, DefsKey).kv) :
               \E i \in 1..Len(defs') :
                 defs'[i].doc = 0 /\ defs'[i].v = Get(Current, DefsKey).kv[n].v]_vars
  /\ [](pc = "done" => \A d \in 1..Len(heap) : DefsNodes(heap[d]) = {})

-----------------------------------------------------------------------------
(* Keys of references and keys of local definitions *)

\* the names of the local definitions of a value
DefNames(tree) ==
  UNION {{Get(NodeAt(tree, p), DefsKey).kv[n].k :
            n \in 1..Len(Get(NodeAt(tree, p), DefsKey).kv)} : p \in DefsNodes(tree)}

\* the keys the visitor computes for the local definitions of the documents
\* fetched so far
HoistKeys ==
  UNION {{HoistKey(uri, n) : n \in DefNames(Served(PrimaryCalls[d].uri))} :
           d \in 1..Len(heap)}

\* the keys computed for the external reference strings followed so far
\* and for the root
ReferenceKeys == {keyFrom(PrimaryCalls[i].uri) : i \in 1..Len(PrimaryCalls)}

\* C32: within one load call the keys computed for external reference
\* strings are disjoint from the keys computed for hoisted local definitions:
\* no external reference string maps to a key of the form
\* "<document key>:$defs:<name>" of a loaded document
C32_DisjointKeys ==
  callee = "load" => ReferenceKeys \cap HoistKeys = {}

-----------------------------------------------------------------------------
(* The overlay is merged before the document is traversed *)

\* the sidecar of the loadSchema that is running has been answered
SidecarAnswer == Answer(world, L10nAddress(ls.url, lang))

\* the references the overlay of fetched document d has written: the string
\* values of its pairs whose path ends at a property $ref
WrittenRefs(d) ==
  LET a == Answer(world, calls[2 * d].url)
      ps == IF a.kind = "value" /\ typeOf(a.v) \in {"object", "array"}
            THEN PairsOf(a.v) ELSE <<>>
  IN {ps[i].value.s :
        i \in {j \in 1..Len(ps) :
                 /\ Segments(ps[j].path) # <<>>
                 /\ Last(Segments(ps[j].path)) = RefKey
                 /\ typeOf(ps[j].value) = "string"}}

\* C33: for every loaded document the localization overlay is completely
\* applied before the visitor visits any node of that document, so a string
\* $ref written by the overlay is then discovered and rewritten (and, if
\* external, fetched) like any reference of the document, and no overlay
\* write lands on an already rewritten $ref
C33_OverlayFirst ==
  /\ [][callee = "load" =>
          \* a document enters the traversal with its overlay applied, at its
          \* root, unvisited; the documents before it are left alone
          /\ Len(heap') > Len(heap) =>
               /\ pc = "l10n" /\ pc' = "traverse"
               /\ heap' = Append(heap, Last(heap'))
               /\ LET ps == IF SidecarAnswer.kind = "value" /\ typeOf(SidecarAnswer.v) \in {"object", "array"}
                            THEN PairsOf(SidecarAnswer.v) ELSE <<>>
                  IN \A i \in 1..Len(ps) :
                       (LastWrite(ps, i) /\ Undisturbed(ps, i) /\ Segments(ps[i].path) # <<>>) =>
                         _get(Last(heap'), ps[i].path, Absent) = [ok |-> TRUE, v |-> ps[i].value]
               /\ Last(stack') = [doc |-> Len(heap'), path |-> <<>>, st |-> "visit"]
          \* a document that is in the traversal is changed by the visitor only
          /\ \A d \in 1..Len(heap) :
               heap'[d] # heap[d] =>
                 /\ pc = "traverse" /\ calls' = calls
                 /\ Top.doc = d /\ Top.st \in {"visit", "loaded"}]_vars
  /\ [](pc = "done" =>
          \A d \in 1..Len(heap) : \A r \in WrittenRefs(d) :
             (r # <<>> /\ r[1] # "#") =>
               /\ \E i \in 1..Len(PrimaryCalls) : PrimaryCalls[i].uri = r
               /\ Known(keyFrom(r))
               /\ r \notin ExternalRefs(heap[d])
               /\ Local \o Colon(r) \in RefStrings(heap[d]))

\* C33 witness: load has returned a document whose overlay wrote the only
\* reference to document 2, which was fetched for it
C33_Witness ==
  /\ callee = "load" /\ pc = "done" /\ world.kind = "ref"
  /\ uri = NameA /\ world.shape[1] = 1
  /\ WrittenRefs(1) = {NameB}
  /\ Len(PrimaryCalls) >= 2 /\ PrimaryCalls[2].uri = NameB
  /\ Get(Get(heap[1], <<"p">>), RefKey) = Str(LocalRef(keyFrom(NameB)))

-----------------------------------------------------------------------------
(* Calls of load that interleave *)

\* what a call has come to: the promise, the table, the documents it
\* fetched as it left them, and the provider calls it made
Outcome(c) ==
  [result |-> c.result, defs |-> c.defs, heap |-> c.heap, calls |-> c.calls]

\* the two calls that run beside each other
Both == {Closure, peer.parked}

-----------------------------------------------------------------------------
(* What _set leaves alone *)

\* the keys a container may have in a call of the model
KeysIn(x, y) ==
  {x.kv[i].k : i \in 1..Len(x.kv)} \cup {y.kv[i].k : i \in 1..Len(y.kv)}
    \cup {Numeral(i) : i \in 0..(Len(x.kv) + Len(y.kv))}

\* the containers before and after hold the same under every key but `key`
SameBut(before, after, key) ==
  /\ after.t = before.t
  /\ \A k \in KeysIn(before, after) \ {<<>>, key} :
       In(k, after) = In(k, before) /\ Get(after, k) = Get(before, k)

\* C35: set replaces an intermediate value on the path only when it is
\* missing, null or a scalar; an existing record or array on the path is
\* kept, and every key that is not on the path, at the root and in every
\* container walked, keeps its previous value
C35_SetFrame ==
  SetOver =>
    \A n \in 0..(Len(Its) - 1) :
       LET before == Reached(args.obj, Its, n)
           after == Reached(heap[1], Its, n)
       IN /\ after.there /\ IsContainer(after.v)
          /\ IF before.there /\ IsContainer(before.v)
             THEN SameBut(before.v, after.v, Its[n + 1].key)
             ELSE \* a container made by this call holds the path's key only
                  /\ after.v.t = (IF Its[n + 1].isArrayIndex THEN "array" ELSE "object")
                  /\ \A k \in KeysIn(after.v, after.v) \ {<<>>, Its[n + 1].key} : ~In(k, after.v)

\* C35 witness: a set such as set({ a: [['x', , 'x'], 0], 'a.0': 'y' },
\* 'a[1]0', 'n') returned: it walked through the array under a, which kept
\* its other element, and replaced the scalar at a[1] by a record
C35_Witness ==
  /\ SetOver /\ Len(Its) = 3
  /\ Reached(args.obj, Its, 1).there /\ Reached(args.obj, Its, 1).v.t = "array"
  /\ Length(Reached(args.obj, Its, 1).v) >= 2
  /\ Reached(args.obj, Its, 2).there /\ ~IsContainer(Reached(args.obj, Its, 2).v)
  /\ IsContainer(Reached(heap[1], Its, 2).v)
  /\ Len(args.obj.kv) >= 2

-----------------------------------------------------------------------------
(* Bindings of the table *)

\* C36: during a load call the table only grows: once a key is bound, its
\* binding is never replaced by a different value, neither by a later fetch
\* nor by hoisting a local definition whose computed key is already present
C36_BindingsKept ==
  [][callee = "load" =>
       /\ Len(defs') >= Len(defs)
       /\ \A i \in 1..Len(defs) :
            defs'[i].k = defs[i].k /\ defs'[i].doc = defs[i].doc /\ defs'[i].v = defs[i].v]_vars

-----------------------------------------------------------------------------
(* Documents of the table *)

\* C37: every value bound under a document key in the table returned by
\* load is a record: when the provider returns a false-ish or non-record
\* value for the primary fetch of the root or of a referenced document, load
\* does not complete successfully with that value stored as a document
C37_DocumentsAreRecords ==
  (callee = "load" /\ pc = "done" /\ result.status = "fulfilled") =>
    \A i \in 1..Len(result.value.defs) :
       defs[i].doc # 0 => typeOf(result.value.defs[i].v) = "object"

-----------------------------------------------------------------------------
(* _get through a scalar *)

\* C38: get on a record root never fails for any string path: when an
\* intermediate value on the path is a non-null scalar (number, string,
\* boolean) it returns default, exactly as for a null or undefined
\* intermediate
C38_GetNeverFails ==
  GetOver =>
    /\ pc = "returned"
    /\ Found.how = "scalar" => result.value = args.defaultValue

-----------------------------------------------------------------------------
(* The address of the sidecar *)

\* C39: in every loadSchema call the provider is invoked exactly twice,
\* first with the document's absolute address and then with a localization
\* address that differs from it; a document is never fetched a second time
\* and merged into itself as its own overlay, whatever the form of its
\* address (addresses that do not contain `.schema.json` included)
C39_SidecarDiffers ==
  callee \in {"load", "loadSchema"} =>
    /\ \A i \in 1..Len(calls) :
         calls[i].what = "l10n" =>
           /\ i > 1 /\ calls[i - 1].what = "primary"
           /\ calls[i].uri = calls[i - 1].uri
           /\ calls[i].url # calls[i - 1].url
    /\ pc \in {"done", "returned"} => Len(calls) = 2 * Len(heap)

-----------------------------------------------------------------------------
(* Reading back what was set *)

\* the defaults a value set is read back with
Defaults == {Undefined, Str(<<"d">>)}

\* C40: round trip: for every record root, every path that tokenizes to at
\* least one segment, and every value v (undefined included),
\* get(set(root, path, v), path, d) returns v for any default d, whatever
\* the root held at or along that path before
C40_RoundTrip ==
  (SetDone /\ args.obj.t = "object" /\ Its # <<>>) =>
    /\ pc = "returned"
    /\ \A d \in Defaults : _get(heap[1], args.path, d) = [ok |-> TRUE, v |-> args.value]

\* what does hold: whenever set returns, reading the path back yields the
\* value set, for every default
C40_ReadBackWhenSet ==
  SetOver =>
    \A d \in Defaults : _get(heap[1], args.path, d) = [ok |-> TRUE, v |-> args.value]

=========================================================================
